---- MODULE Spec2Model ----
(***************************************************************************)
(* A model of CmdHub's session/instance multiplexing engine.               *)
(*                                                                         *)
(*   core/src/instance.rs     RingBuffer, SessionManager (instance table)  *)
(*   core/src/session/mod.rs  SessionStore (active / history on disk)      *)
(*   cli/src/main.rs          run_session_host, run_attach, kill_session   *)
(*                                                                         *)
(* Each component has its own group of variables and its own               *)
(* specification (SpecRing, SpecTable, SpecStore, SpecSession,             *)
(* SpecAttach); a specification leaves the other groups at their initial   *)
(* value.                                                                  *)
(***************************************************************************)
EXTENDS Integers, Sequences, FiniteSets, TLC

VARIABLES
    \* RingBuffer (core/src/instance.rs)
    buf,            \* RingBuffer.buf, oldest byte first
    cap,            \* RingBuffer.cap
    pushed,         \* history: concatenation of every chunk pushed so far
    \* SessionManager (core/src/instance.rs)
    instances,      \* the table: instance id -> InstanceEntry
    counters,       \* per-task counter of next_instance_id
    held,           \* caller -> the master/writer pairs that caller owns
    kills,          \* instance id -> number of kill() calls on its killer
    mlog,           \* history: per id, the last two hand-off events
    t_ret,          \* history: the last table operation, its id and its result
    \* run_session_host / run_attach: output fan-out (cli/src/main.rs)
    produced,       \* number of chunks the reader thread has read from the PTY
    rd_pc,          \* reader thread: "read" -> "log" -> "send" -> "read"
    logfile,        \* output.log, as the sequence of chunks appended
    tx_vals,        \* every value the broadcast channel accepted, by position
    published,      \* history: every chunk handed to output_tx.send, in order
    hs,             \* connection -> host side: none, backlog, serving, lagged
    rx_next,        \* connection -> position its broadcast receiver reads next
    cl_pc,          \* connection -> client: detached, tail_read, attached
    tail,           \* connection -> log tail shown by the current run_attach
    live,           \* connection -> chunks its current run_attach got by socket
    sub_pos,        \* history: channel position when the receiver subscribed
    attaches,       \* history: connection -> number of run_attach calls so far
    \* SessionStore (core/src/session/mod.rs)
    st_active,      \* sessions/active: id -> session directory
    st_history,     \* sessions/history: id -> session directory
    st_next,        \* ids handed out so far (Uuid::new_v4 never repeats)
    st_clock,       \* now_epoch()
    st_last,        \* history: what the last store operation did
    \* One detachable session: run_start, run_session_host, kill_session
    act,            \* sessions/active/<id>: [exists, meta, sock]
    hist,           \* sessions/history/<id>: [exists, meta, sock]
    pc,             \* process -> where it is in its code
    info,           \* process -> the SessionInfo it holds in memory
    exit_rx,        \* the oneshot exit channel: none, ok, err (sender dropped)
    h_moved,        \* history: the host's own rename to history succeeded
    pruned,         \* history: prune_history deleted the session's directory
    \* One instance's InstanceInfo, OscParser and exit watcher (instance.rs)
    i_info,         \* the entry's info: [present, status, ended_at, child_pid, title]
    i_buffer,       \* the entry's RingBuffer contents
    i_parser,       \* the entry's OscParser: [state, buf]
    i_watch,        \* exit watcher: none, armed (in child.wait()), fired
    i_clock,        \* now_epoch()
    i_last,         \* history: the last operation, its argument and its result
    \* parse_ansi_text (cli/src/main.rs)
    a_input,        \* the text handed to parse_ansi_text, as characters
    a_pieces,       \* history: the pieces a_input was put together from
    \* run_attach / handle_attach_stream / writer thread: the input path
    in_pc,          \* connection -> client: select, relay, detached
    in_buf,         \* connection -> the stdin chunk the client has just read
    in_typed,       \* connection -> number of data bytes typed so far
    in_sock,        \* connection -> bytes written to the socket, not yet read
    in_shut,        \* connection -> the client shut down its write side
    in_handler,     \* connection -> handle_attach_stream: read, send, ended
    in_hold,        \* connection -> the chunk its handler read and has to send
    in_queue,       \* the mpsc input queue, oldest chunk first
    in_pty,         \* every byte written to the PTY, in order
    in_host,        \* the host process: running, stopped
    in_written,     \* history: connection -> every byte it wrote to its socket
    in_chunks,      \* history: the chunks the writer thread took off the queue
    \* apply_sgr on one Style (cli/src/main.rs)
    g_style,        \* the Style apply_sgr works on
    g_codes,        \* history: the parameters of the last sequence applied
    \* One OscParser fed chunk by chunk (core/src/instance.rs)
    o_parser,       \* the OscParser: [state, buf]
    o_titles,       \* the titles the last collect_titles call pushed
    o_payload,      \* history: every byte that arrived since Collect was entered
    o_last,         \* history: the chunk of the last collect_titles call
    o_fed,          \* number of collect_titles calls so far
    \* The instance table with its children and exit watchers (instance.rs)
    l_table,        \* the table: id -> [info, buffer, parser, master]
    l_count,        \* the counter of next_instance_id
    l_child,        \* id -> the child process: [state, ok, code]
    l_watch,        \* id -> the exit watcher: none, waiting (in child.wait()), done
    l_held,         \* the ids whose master/writer pair a caller holds
    l_signalled,    \* history: the ids whose child was sent a signal
    l_pids,         \* history: the pids terminate_all sent a signal to
    l_clock,        \* now_epoch()
    l_last,         \* history: the last operation, its id and its result
    \* next_instance_id and the table's keys (core/src/instance.rs)
    d_counters,     \* SessionManager.counters: task id -> counter
    d_table,        \* the keys of SessionManager.instances
    d_pc,           \* caller -> where its spawn_raw is: idle, has_id
    d_id,           \* caller -> the id its spawn_raw got from next_instance_id
    d_issued,       \* history: the id of every spawn that returned Ok, in order
    \* One byte stream given to append_output whole and in parts (instance.rs)
    p_stream,       \* the bytes the PTY delivers
    p_whole,        \* the entry that gets them in one call: [info, buffer, parser]
    p_parts,        \* the entry that gets them in several calls
    p_fed,          \* number of bytes the second entry has got so far
    p_once,         \* the first entry has got its call
    p_cutin,        \* history: a call of the second entry ended inside an OSC sequence
    p_clock,        \* now_epoch()
    \* The TUI App (cli/src/main.rs)
    u_running,      \* running_tasks: run id -> [task_index, started_at]
    u_active,       \* active_run_id, NoRun for None
    u_next,         \* next_run_id
    u_items,        \* display_items
    u_selected,     \* list_state.selected(), NoSel for None
    u_view,         \* current_view
    u_alive,        \* run_app has not returned
    u_given,        \* history: the ids allocate_run_id returned
    u_clock         \* now_epoch()

ringVars  == <<buf, cap, pushed>>
tableVars == <<instances, counters, held, kills, mlog, t_ret>>
attachVars == <<produced, rd_pc, logfile, tx_vals, published, hs, rx_next,
                cl_pc, tail,
                live, sub_pos, attaches>>
storeVars == <<st_active, st_history, st_next, st_clock, st_last>>
sessVars  == <<act, hist, pc, info, exit_rx, h_moved, pruned>>
infoVars  == <<i_info, i_buffer, i_parser, i_watch, i_clock, i_last>>
ansiVars  == <<a_input, a_pieces>>
inputVars == <<in_pc, in_buf, in_typed, in_sock, in_shut, in_handler, in_hold,
               in_queue, in_pty, in_host, in_written, in_chunks>>
sgrVars == <<g_style, g_codes>>
oscVars   == <<o_parser, o_titles, o_payload, o_last, o_fed>>
lifeVars  == <<l_table, l_count, l_child, l_watch, l_held, l_signalled, l_pids,
               l_clock, l_last>>
idsVars   == <<d_counters, d_table, d_pc, d_id, d_issued>>
splitVars == <<p_stream, p_whole, p_parts, p_fed, p_once, p_cutin, p_clock>>
appVars   == <<u_running, u_active, u_next, u_items, u_selected, u_view, u_alive, u_given, u_clock>>
vars      == <<buf, cap, pushed, instances, counters, held, kills, mlog, t_ret,
               produced, rd_pc, logfile, tx_vals, published, hs, rx_next,
               cl_pc, tail,
               live, sub_pos, attaches,
               st_active, st_history, st_next, st_clock, st_last,
               act, hist, pc, info, exit_rx, h_moved, pruned,
               i_info, i_buffer, i_parser, i_watch, i_clock, i_last,
               a_input, a_pieces,
               in_pc, in_buf, in_typed, in_sock, in_shut, in_handler, in_hold,
               in_queue, in_pty, in_host, in_written, in_chunks,
               g_style, g_codes,
               o_parser, o_titles, o_payload, o_last, o_fed,
               l_table, l_count, l_child, l_watch, l_held, l_signalled, l_pids, l_clock, l_last,
               d_counters, d_table, d_pc, d_id, d_issued,
               p_stream, p_whole, p_parts, p_fed, p_once, p_cutin, p_clock,
               u_running, u_active, u_next, u_items, u_selected, u_view, u_alive, u_given, u_clock>>

\* What the actions of one group leave alone.
notRing   == <<tableVars, attachVars, storeVars, sessVars, infoVars,
                ansiVars, inputVars, sgrVars, oscVars, lifeVars, idsVars,
                splitVars, appVars>>
notTable  == <<ringVars, attachVars, storeVars, sessVars, infoVars,
                ansiVars, inputVars, sgrVars, oscVars, lifeVars, idsVars,
                splitVars, appVars>>
notAttach == <<ringVars, tableVars, storeVars, sessVars, infoVars,
                ansiVars, inputVars, sgrVars, oscVars, lifeVars, idsVars,
                splitVars, appVars>>
notStore  == <<ringVars, tableVars, attachVars, sessVars, infoVars,
                ansiVars, inputVars, sgrVars, oscVars, lifeVars, idsVars,
                splitVars, appVars>>
notSess   == <<ringVars, tableVars, attachVars, storeVars, infoVars,
                ansiVars, inputVars, sgrVars, oscVars, lifeVars, idsVars,
                splitVars, appVars>>
notInfo   == <<ringVars, tableVars, attachVars, storeVars, sessVars,
                ansiVars, inputVars, sgrVars, oscVars, lifeVars, idsVars,
                splitVars, appVars>>
notAnsi   == <<ringVars, tableVars, attachVars, storeVars, sessVars,
                infoVars, inputVars, sgrVars, oscVars, lifeVars, idsVars,
                splitVars, appVars>>
notInput  == <<ringVars, tableVars, attachVars, storeVars, sessVars,
                infoVars, ansiVars, sgrVars, oscVars, lifeVars, idsVars,
                splitVars, appVars>>
notSgr    == <<ringVars, tableVars, attachVars, storeVars, sessVars,
                infoVars, ansiVars, inputVars, oscVars, lifeVars,
                idsVars, splitVars, appVars>>
notOsc    == <<ringVars, tableVars, attachVars, storeVars, sessVars,
                infoVars, ansiVars, inputVars, sgrVars, lifeVars,
                idsVars, splitVars, appVars>>
notLife   == <<ringVars, tableVars, attachVars, storeVars, sessVars,
                infoVars, ansiVars, inputVars, sgrVars, oscVars, idsVars,
                splitVars, appVars>>
notIds    == <<ringVars, tableVars, attachVars, storeVars, sessVars,
                infoVars, ansiVars, inputVars, sgrVars, oscVars,
                lifeVars, splitVars, appVars>>
notSplit  == <<ringVars, tableVars, attachVars, storeVars, sessVars,
                infoVars, ansiVars, inputVars, sgrVars, oscVars,
                lifeVars, idsVars, appVars>>
notApp    == <<ringVars, tableVars, attachVars, storeVars, sessVars,
                infoVars, ansiVars, inputVars, sgrVars, oscVars,
                lifeVars, idsVars, splitVars>>

None == "None"

Min(a, b) == IF a < b THEN a ELSE b
Max(a, b) == IF a > b THEN a ELSE b

\* The last n elements of s (all of s when it is shorter).
Suffix(s, n) == SubSeq(s, Len(s) - Min(n, Len(s)) + 1, Len(s))

(***************************************************************************)
(* RingBuffer                                                              *)
(***************************************************************************)
MaxByte   == 2      \* bytes are 1..MaxByte
MaxCap    == 3      \* capacities 0..MaxCap
MaxChunk  == 4      \* chunk lengths 0..MaxChunk (longer than any capacity)
MaxPushed == 6      \* total number of bytes pushed in one behaviour

Bytes  == 1..MaxByte
Chunks == UNION {[1..n -> Bytes] : n \in 0..MaxChunk}

\* while self.buf.len() + data.len() > self.cap { self.buf.pop_front(); }
RECURSIVE EvictFront(_, _, _)
EvictFront(b, n, c) ==
    IF Len(b) + n > c THEN EvictFront(Tail(b), n, c) ELSE b

\* A push that keeps the head of an oversized chunk instead of its tail.
RingPushKeepsHead(b, c, data) ==
    IF Len(data) = 0 THEN b
    ELSE IF Len(data) >= c THEN SubSeq(data, 1, c)
    ELSE EvictFront(b, Len(data), c) \o data

\* RingBuffer::push: the new contents of a buffer b of capacity c.
RingPush(b, c, data) ==
    IF Len(data) = 0 THEN b
    ELSE IF Len(data) >= c THEN SubSeq(data, Len(data) - c + 1, Len(data))
    ELSE EvictFront(b, Len(data), c) \o data

\* RingBuffer::snapshot: an ordered copy of the contents.
Snapshot == [i \in 1..Len(buf) |-> buf[i]]

RingInit ==
    /\ cap \in 0..MaxCap
    /\ buf = <<>>
    /\ pushed = <<>>

Push(data) ==
    /\ Len(pushed) + Len(data) <= MaxPushed
    /\ buf' = RingPush(buf, cap, data)
    /\ pushed' = pushed \o data
    /\ UNCHANGED <<cap, notRing>>

(***************************************************************************)
(* SessionManager: the master/writer hand-off                              *)
(***************************************************************************)
MaxCounter == 2     \* spawns per task in one behaviour

Tasks   == {"t1"}
Callers == {"c1", "c2"}

\* format!("{}#{}", task_id, counter)
InstanceId(t, n) == <<t, n>>
InstanceIds == {InstanceId(t, n) : t \in Tasks, n \in 1..MaxCounter}

TableInit ==
    /\ instances = <<>>
    /\ counters = [t \in Tasks |-> 0]
    /\ held = [c \in Callers |-> {}]
    /\ kills = [i \in InstanceIds |-> 0]
    /\ mlog = [i \in InstanceIds |-> <<"none", "none">>]
    /\ t_ret = [op |-> "none", id |-> <<>>, ret |-> FALSE]

\* Option::None in the master and writer fields of an entry.
NoPair == <<>>

Stored(e) == e.master # NoPair /\ e.writer # NoPair

Log(id, ev) == [mlog EXCEPT ![id] = <<mlog[id][2], ev>>]

Returned(op, id, ret) == [op |-> op, id |-> id, ret |-> ret]

\* A take_master that hands the pair out and leaves it in the entry.
TakeFromEntryKeeps(e) == e

\* take_master: (entry.master.take(), entry.writer.take())
TakeFromEntry(e) == [e EXCEPT !.master = NoPair, !.writer = NoPair]

\* A return_master after which the caller still owns the pair.
GiveUpKeeps(h, p) == h

\* return_master takes the boxes by value: the caller no longer owns them.
GiveUp(h, p) == h \ {p}

\* spawn_raw (the path on which nothing fails): the entry is inserted with
\* master: None, writer: None and the pair goes to the caller.
SpawnRaw(c, t) ==
    /\ counters[t] < MaxCounter
    /\ LET n  == counters[t] + 1
           id == InstanceId(t, n)
       IN /\ counters' = [counters EXCEPT ![t] = n]
          /\ instances' = (id :> [master |-> NoPair, writer |-> NoPair]) @@ instances
          /\ held' = [held EXCEPT ![c] = @ \cup {id}]
          /\ mlog' = Log(id, "spawn_raw")
          /\ t_ret' = Returned("spawn_raw", id, TRUE)
    /\ UNCHANGED <<kills, notTable>>

\* A spawn_raw that draws the instance id before it opens the PTY.
SpawnStepsIdFirst ==
    <<"next_instance_id", "openpty", "ensure_bash_rcfile", "spawn_command",
      "take_writer", "insert">>

\* The steps of spawn_raw in the order of the code.
SpawnSteps ==
    <<"openpty", "ensure_bash_rcfile", "spawn_command", "take_writer",
      "next_instance_id", "insert">>

\* The calls of spawn_raw that are followed by '?'.
FailPoints == {"openpty", "ensure_bash_rcfile", "spawn_command", "take_writer"}

StepDone(step, at) ==
    \E i, j \in 1..Len(SpawnSteps) :
        SpawnSteps[i] = step /\ SpawnSteps[j] = at /\ i < j

\* spawn_raw returning Err from the step at: the steps before it have run.
SpawnRawFails(c, t, at) ==
    /\ counters[t] < MaxCounter
    /\ LET n  == counters[t] + 1
           id == InstanceId(t, n)
       IN /\ counters' = IF StepDone("next_instance_id", at)
                         THEN [counters EXCEPT ![t] = n] ELSE counters
          /\ instances' = IF StepDone("insert", at)
                          THEN (id :> [master |-> NoPair, writer |-> NoPair])
                                   @@ instances
                          ELSE instances
    /\ t_ret' = Returned("spawn_raw", InstanceId(t, 0), FALSE)
    /\ UNCHANGED <<held, kills, mlog, notTable>>

\* return_master(id, master, writer), called by the owner of pair p for the
\* instance p was spawned for.
ReturnMaster(c, p) ==
    /\ p \in held[c]
    /\ held' = [held EXCEPT ![c] = GiveUp(@, p)]
    /\ IF p \in DOMAIN instances
       THEN /\ instances' = [instances EXCEPT ![p] = [@ EXCEPT !.master = p, !.writer = p]]
            /\ mlog' = Log(p, "return_stored")
       ELSE /\ instances' = instances
            /\ mlog' = Log(p, "return_dropped")
    /\ t_ret' = Returned("return_master", p, TRUE)
    /\ UNCHANGED <<counters, kills, notTable>>

\* spawn: spawn_raw, then return_master of the pair just created, with no
\* other caller in between (SpawnRaw followed by ReturnMaster covers the
\* runs in which another caller gets the lock between the two).
Spawn(t) ==
    /\ counters[t] < MaxCounter
    /\ LET n  == counters[t] + 1
           id == InstanceId(t, n)
       IN /\ counters' = [counters EXCEPT ![t] = n]
          /\ instances' = (id :> [master |-> id, writer |-> id]) @@ instances
          /\ mlog' = [mlog EXCEPT ![id] = <<"spawn_raw", "return_stored">>]
          /\ t_ret' = Returned("spawn", id, TRUE)
    /\ UNCHANGED <<held, kills, notTable>>

TakeMaster(c, id) ==
    /\ IF id \in DOMAIN instances
       THEN /\ instances' = [instances EXCEPT ![id] = TakeFromEntry(@)]
            /\ IF Stored(instances[id])
               THEN /\ held' = [held EXCEPT ![c] = @ \cup {instances[id].master}]
                    /\ mlog' = Log(id, "take_some")
               ELSE /\ held' = held
                    /\ mlog' = Log(id, "take_none")
       ELSE /\ mlog' = Log(id, "take_none")
            /\ UNCHANGED <<instances, held>>
    /\ t_ret' = Returned("take_master", id,
                         id \in DOMAIN instances /\ Stored(instances[id]))
    /\ UNCHANGED <<counters, kills, notTable>>

\* A remove that leaves the entry in the table.
RemoveEntryKeeps(t, id) == t

\* guard.remove(id): the entry goes, and with it a pair stored in it.
RemoveEntry(t, id) == [i \in DOMAIN t \ {id} |-> t[i]]

Remove(id) ==
    /\ id \in DOMAIN instances
    /\ instances' = RemoveEntry(instances, id)
    /\ mlog' = Log(id, "removed")
    /\ t_ret' = Returned("remove", id, TRUE)
    /\ UNCHANGED <<counters, held, kills, notTable>>

\* kill_and_remove: guard.remove(id) under the lock; for Some(entry) its
\* killer is signalled once and true is returned, otherwise false.
KillAndRemove(id) ==
    /\ IF id \in DOMAIN instances
       THEN /\ instances' = RemoveEntry(instances, id)
            /\ mlog' = Log(id, "removed")
            /\ kills' = [kills EXCEPT ![id] = @ + 1]
            /\ t_ret' = Returned("kill_and_remove", id, TRUE)
       ELSE /\ UNCHANGED <<instances, mlog, kills>>
            /\ t_ret' = Returned("kill_and_remove", id, FALSE)
    /\ UNCHANGED <<counters, held, notTable>>

(***************************************************************************)
(* Session host and attach client: output fan-out                          *)
(*                                                                         *)
(* A chunk is what one reader.read() returned; chunk k is the k-th one,    *)
(* and stands for its bytes.  Connections are the viewers' terminals: a    *)
(* viewer attaches, detaches and attaches again.                           *)
(***************************************************************************)
MaxChunks    == 4   \* chunks the child produces in one behaviour
MaxAttach    == 2   \* run_attach calls per viewer in one behaviour
BroadcastCap == 2   \* stands for broadcast::channel(100): values retained
TailLimit    == 2   \* stands for ATTACH_LOG_TAIL_BYTES: tail bytes replayed

Conns == {"a1", "a2"}

AttachInit ==
    /\ produced = 0
    /\ rd_pc = "read"
    /\ logfile = <<>>
    /\ tx_vals = <<>>
    /\ published = <<>>
    /\ hs = [c \in Conns |-> "none"]
    /\ rx_next = [c \in Conns |-> 0]
    /\ cl_pc = [c \in Conns |-> "detached"]
    /\ tail = [c \in Conns |-> <<>>]
    /\ live = [c \in Conns |-> <<>>]
    /\ sub_pos = [c \in Conns |-> 0]
    /\ attaches = [c \in Conns |-> 0]

\* Receivers of the broadcast channel that are still alive: one per
\* handle_attach_stream whose write_task has not ended.
Receivers == {c \in Conns : hs[c] = "serving"}

\* reader.read(&mut buf) returned n > 0 bytes.
ReaderRead ==
    /\ rd_pc = "read"
    /\ produced < MaxChunks
    /\ produced' = produced + 1
    /\ rd_pc' = "log"
    /\ UNCHANGED <<logfile, tx_vals, published, hs, rx_next, cl_pc, tail,
                   live, sub_pos,
                   attaches, notAttach>>

\* A log file opened without append(true): each write starts at offset 0.
WriteAllAtStart(file, data) == <<data>> \o Tail(file \o <<data>>)

\* write_all on the file opened with create(true).append(true)
WriteAll(file, data) == Append(file, data)

\* log_file.write_all(&data)
ReaderLog ==
    /\ rd_pc = "log"
    /\ logfile' = WriteAll(logfile, produced)
    /\ rd_pc' = "send"
    /\ UNCHANGED <<produced, tx_vals, published, hs, rx_next, cl_pc, tail,
                   live, sub_pos,
                   attaches, notAttach>>

\* broadcast::Sender::send: the value is stored when a receiver exists and
\* dropped (Err, ignored) when none does.
ChannelSend(vals, v) == IF Receivers # {} THEN Append(vals, v) ELSE vals

\* let _ = output_tx_clone.send(data)
ReaderSend ==
    /\ rd_pc = "send"
    /\ tx_vals' = ChannelSend(tx_vals, produced)
    /\ published' = Append(published, produced)
    /\ rd_pc' = "read"
    /\ UNCHANGED <<produced, logfile, hs, rx_next, cl_pc, tail, live, sub_pos,
                   attaches, notAttach>>

\* run_attach, !needs_refresh: seek to size - ATTACH_LOG_TAIL_BYTES and copy
\* the log to the terminal.
LogTail(log) == Suffix(log, TailLimit)

ClientReadTail(c) ==
    /\ cl_pc[c] = "detached"
    /\ attaches[c] < MaxAttach
    /\ attaches' = [attaches EXCEPT ![c] = @ + 1]
    /\ tail' = [tail EXCEPT ![c] = LogTail(logfile)]
    /\ cl_pc' = [cl_pc EXCEPT ![c] = "tail_read"]
    /\ UNCHANGED <<produced, rd_pc, logfile, tx_vals, published, hs, rx_next,
                   live,
                   sub_pos, notAttach>>

\* UnixStream::connect: the connection waits in the listener's backlog.
ClientConnect(c) ==
    /\ cl_pc[c] = "tail_read"
    /\ cl_pc' = [cl_pc EXCEPT ![c] = "attached"]
    /\ hs' = [hs EXCEPT ![c] = "backlog"]
    /\ UNCHANGED <<produced, rd_pc, logfile, tx_vals, published, rx_next,
                   tail, live,
                   sub_pos, attaches, notAttach>>

\* listener.accept(), output_tx.subscribe(), spawn handle_attach_stream: the
\* new receiver starts at the channel's current end.
HostAccept(c) ==
    /\ hs[c] = "backlog"
    /\ hs' = [hs EXCEPT ![c] = "serving"]
    /\ rx_next' = [rx_next EXCEPT ![c] = Len(tx_vals)]
    /\ sub_pos' = [sub_pos EXCEPT ![c] = Len(tx_vals)]
    /\ UNCHANGED <<produced, rd_pc, logfile, tx_vals, published, cl_pc, tail,
                   live,
                   attaches, notAttach>>

\* broadcast::Receiver::recv on a receiver whose next value was overwritten:
\* the channel keeps the last BroadcastCap values.
Lagging(c) == rx_next[c] < Len(tx_vals) - BroadcastCap

\* write_task: while let Ok(data) = output_rx.recv().await { write_all }.
\* A value goes to the socket and from there to the viewer's terminal; on
\* Err(Lagged) the loop, and with it the task and its receiver, ends.
HostForward(c) ==
    /\ hs[c] = "serving"
    /\ IF Lagging(c)
       THEN /\ hs' = [hs EXCEPT ![c] = "lagged"]
            /\ UNCHANGED <<rx_next, live>>
       ELSE /\ rx_next[c] < Len(tx_vals)
            /\ live' = [live EXCEPT ![c] = Append(@, tx_vals[rx_next[c] + 1])]
            /\ rx_next' = [rx_next EXCEPT ![c] = @ + 1]
            /\ hs' = hs
    /\ UNCHANGED <<produced, rd_pc, logfile, tx_vals, published, cl_pc, tail,
                   sub_pos,
                   attaches, notAttach>>

\* The viewer types the detach byte: run_attach shuts its write side down,
\* handle_attach_stream reads 0 bytes and aborts its write_task (dropping
\* the receiver); the next run_attach clears the terminal.
ClientDetach(c) ==
    /\ cl_pc[c] = "attached"
    /\ cl_pc' = [cl_pc EXCEPT ![c] = "detached"]
    /\ hs' = [hs EXCEPT ![c] = "none"]
    /\ rx_next' = [rx_next EXCEPT ![c] = 0]
    /\ sub_pos' = [sub_pos EXCEPT ![c] = 0]
    /\ tail' = [tail EXCEPT ![c] = <<>>]
    /\ live' = [live EXCEPT ![c] = <<>>]
    /\ UNCHANGED <<produced, rd_pc, logfile, tx_vals, published, attaches, notAttach>>

(***************************************************************************)
(* SessionStore: the active and history subtrees                           *)
(*                                                                         *)
(* A session directory is [started_at, meta]: meta is "ok" when meta.json  *)
(* parses, "partial" when a writer was stopped between fs::write's         *)
(* truncation and its write, and "missing" when the directory holds no     *)
(* meta.json.                                                              *)
(***************************************************************************)
MaxSessions == 3    \* sessions created in one behaviour
MaxClock    == 2    \* now_epoch() takes the values 0..MaxClock
MaxKeep     == 2    \* history_limit takes the values 0..MaxKeep

SessionIds == 1..MaxSessions

StoreInit ==
    /\ st_active = <<>>
    /\ st_history = <<>>
    /\ st_next = 0
    /\ st_clock = 0
    /\ st_last = [op |-> "new"]

\* Time passes between two calls of now_epoch().
Tick ==
    /\ st_clock < MaxClock
    /\ st_clock' = st_clock + 1
    /\ UNCHANGED <<st_active, st_history, st_next, st_last, notStore>>

\* create_session: a fresh id, its directory under active, Pending metadata.
CreateSession ==
    /\ st_next < MaxSessions
    /\ st_next' = st_next + 1
    /\ st_active' = (st_next + 1 :> [started_at |-> st_clock, meta |-> "ok"])
                        @@ st_active
    /\ st_last' = [op |-> "create"]
    /\ UNCHANGED <<st_history, st_clock, notStore>>

\* create_session by a process that is stopped after create_dir_all and
\* before write_session: the directory is there, meta.json is not.
CreateSessionDir ==
    /\ st_next < MaxSessions
    /\ st_next' = st_next + 1
    /\ st_active' = (st_next + 1 :> [started_at |-> st_clock, meta |-> "missing"])
                        @@ st_active
    /\ st_last' = [op |-> "create"]
    /\ UNCHANGED <<st_history, st_clock, notStore>>

\* write_session: fs::write to active/<id>/meta.json; fails when the
\* directory is not there.
WriteSession(id) ==
    /\ id \in DOMAIN st_active
    /\ st_active' = [st_active EXCEPT ![id].meta = "ok"]
    /\ st_last' = [op |-> "write"]
    /\ UNCHANGED <<st_history, st_next, st_clock, notStore>>

\* write_session by a process that is killed after fs::write truncated
\* meta.json and before it wrote the new contents.
InterruptedWrite(id) ==
    /\ id \in DOMAIN st_active
    /\ st_active' = [st_active EXCEPT ![id].meta = "partial"]
    /\ st_last' = [op |-> "write"]
    /\ UNCHANGED <<st_history, st_next, st_clock, notStore>>

\* list_sessions_in, as the set of ids listed: directories whose meta.json
\* does not parse are skipped.
ListedIds(dir) == {id \in DOMAIN dir : dir[id].meta = "ok"}

\* The orders in which fs::read_dir may yield the entries of a directory.
ReadDirOrders(dir) ==
    {o \in [1..Cardinality(DOMAIN dir) -> DOMAIN dir] :
        \A i, j \in DOMAIN o : o[i] = o[j] => i = j}

\* A listing that takes every directory for a session.
KeptAlways(meta) == TRUE

\* meta_path.exists(), fs::read and serde_json::from_slice all succeed.
Kept(meta) == meta = "ok"

\* Vec::insert at the place a stable sort by started_at gives id.
RECURSIVE InsertByKey(_, _, _)
InsertByKey(sorted, id, dir) ==
    IF sorted = <<>> THEN <<id>>
    ELSE IF dir[id].started_at < dir[sorted[Len(sorted)]].started_at
    THEN Append(InsertByKey(SubSeq(sorted, 1, Len(sorted) - 1), id, dir),
                sorted[Len(sorted)])
    ELSE Append(sorted, id)

\* sessions.sort_by_key(|info| info.started_at): a stable sort.
RECURSIVE SortByKey(_, _)
SortByKey(ids, dir) ==
    IF ids = <<>> THEN <<>>
    ELSE InsertByKey(SortByKey(SubSeq(ids, 1, Len(ids) - 1), dir),
                     ids[Len(ids)], dir)

\* list_sessions_in(dir) when read_dir yields the entries in order o.
ListSessionsIn(dir, o) ==
    SortByKey(SelectSeq(o, LAMBDA id : Kept(dir[id].meta)), dir)

\* list_sessions() / list_history()
ListSessions(which) ==
    LET dir == IF which = "active" THEN st_active ELSE st_history
    IN /\ \E o \in ReadDirOrders(dir) :
              st_last' = [op |-> "list", which |-> which, ok |-> TRUE,
                          listed |-> ListSessionsIn(dir, o)]
       /\ UNCHANGED <<st_active, st_history, st_next, st_clock, notStore>>

Without(dir, ids) == [id \in DOMAIN dir \ ids |-> dir[id]]

\* prune_history: the directories it may delete.  The list is sorted by
\* started_at with a stable sort over read_dir's order, which is arbitrary:
\* among entries with equal started_at any may come first.
PruneVictims(dir, n) ==
    LET listed == ListedIds(dir)
        excess == Cardinality(listed) - n
    IN IF Cardinality(listed) <= n
       THEN {{}}
       ELSE {d \in SUBSET listed :
                /\ Cardinality(d) = excess
                /\ \A x \in d, y \in listed \ d :
                       dir[x].started_at <= dir[y].started_at}

\* rename(from, to) of move_to_history, after removing a stale `to`.
Renamed(id) ==
    IF id \in DOMAIN st_active
    THEN (id :> st_active[id]) @@ st_history
    ELSE st_history

\* move_to_history(id, max_entries), run with no other store operation in
\* between its steps.
MoveToHistory(id, n) ==
    /\ id <= st_next
    /\ st_active' = Without(st_active, {id})
    /\ \E victims \in PruneVictims(Renamed(id), n) :
           /\ st_history' = Without(Renamed(id), victims)
           /\ st_last' = [op |-> "move", id |-> id, n |-> n,
                          moved |-> id \in DOMAIN st_active,
                          count |-> Cardinality(DOMAIN Renamed(id)),
                          before |-> Renamed(id),
                          deleted |-> victims]
    /\ UNCHANGED <<st_next, st_clock, notStore>>

(***************************************************************************)
(* One detachable session, from run_start to history                       *)
(*                                                                         *)
(* Processes: the launcher (run_start), the session host                   *)
(* (run_session_host, with its exit-watcher thread), the TUI child the     *)
(* host spawns (sync_running_task_pids) and `cmdhub kill` invocations       *)
(* (kill_session).  They share only the file system, so one step is one    *)
(* file-system call; write_session is taken as one step here.              *)
(***************************************************************************)
Killers == {"k1"}
Movers  == {"host"} \cup Killers
Procs   == {"launcher", "host", "child"} \cup Killers

\* SessionInfo, with each Option<..> field as "is it Some".
Meta(st) == [status |-> st, runner_pid |-> FALSE, child_pid |-> FALSE,
             socket_path |-> FALSE, ended_at |-> FALSE, pids |-> FALSE]

NoDir == [exists |-> FALSE, meta |-> Meta("Pending"), sock |-> FALSE]

SessInit ==
    /\ act = NoDir
    /\ hist = NoDir
    /\ pc = [p \in Procs |-> IF p = "launcher" THEN "start"
                             ELSE IF p \in Killers THEN "idle" ELSE "none"]
    /\ info = [p \in Procs |-> Meta("Pending")]
    /\ exit_rx = "none"
    /\ h_moved = FALSE
    /\ pruned = FALSE

Goto(p, where) == [pc EXCEPT ![p] = where]

\* The host process is running (it can still be signalled and take steps).
HostAlive == pc["host"] \notin {"none", "done", "error", "killed"}
ChildAlive == pc["child"] \in {"idle", "loaded"}

\* The host process ends: its PTY master closes and the child is hung up.
HostEnds(how) ==
    [pc EXCEPT !["host"] = how,
               !["child"] = IF ChildAlive THEN "dead" ELSE @]

\* write_session(info): fs::write to active/<id>/meta.json.
Written(m) == [act EXCEPT !.meta = m]

(* ---- run_start / spawn_session_host / run_attach ---- *)

\* store.create_session(..): directory and Pending metadata.
LauncherCreate ==
    /\ pc["launcher"] = "start"
    /\ act' = [exists |-> TRUE, meta |-> Meta("Pending"), sock |-> FALSE]
    /\ pc' = Goto("launcher", "spawn")
    /\ UNCHANGED <<hist, info, exit_rx, h_moved, pruned, notSess>>

\* Command::new(exe).arg("session-host")...spawn()
LauncherSpawnHost ==
    /\ pc["launcher"] = "spawn"
    /\ pc' = [pc EXCEPT !["launcher"] = "load", !["host"] = "load"]
    /\ UNCHANGED <<act, hist, info, exit_rx, h_moved, pruned, notSess>>

\* if let Ok(mut info) = store.load_session(session_id)
LauncherLoad ==
    /\ pc["launcher"] = "load"
    /\ IF act.exists
       THEN /\ info' = [info EXCEPT !["launcher"] = act.meta]
            /\ pc' = Goto("launcher", "write")
       ELSE /\ info' = info
            /\ pc' = Goto("launcher", "wait")
    /\ UNCHANGED <<act, hist, exit_rx, h_moved, pruned, notSess>>

\* info.runner_pid = Some(child.id()); let _ = store.write_session(&info)
LauncherWrite ==
    /\ pc["launcher"] = "write"
    /\ act' = IF act.exists
              THEN Written([info["launcher"] EXCEPT !.runner_pid = TRUE])
              ELSE act
    /\ pc' = Goto("launcher", "wait")
    /\ UNCHANGED <<hist, info, exit_rx, h_moved, pruned, notSess>>

\* while !socket_path.exists() { .. }: the socket file is there.
LauncherSeesSocket ==
    /\ pc["launcher"] = "wait"
    /\ act.exists /\ act.sock
    /\ pc' = Goto("launcher", "attach")
    /\ UNCHANGED <<act, hist, info, exit_rx, h_moved, pruned, notSess>>

\* "Timed out waiting for session to start"
LauncherTimeout ==
    /\ pc["launcher"] = "wait"
    /\ ~(act.exists /\ act.sock)
    /\ pc' = Goto("launcher", "failed")
    /\ UNCHANGED <<act, hist, info, exit_rx, h_moved, pruned, notSess>>

\* run_attach: load_session, then socket_path.ok_or("not attachable yet").
LauncherAttach ==
    /\ pc["launcher"] = "attach"
    /\ pc' = Goto("launcher",
                  IF ~act.exists THEN "failed"
                  ELSE IF act.meta.socket_path THEN "attached"
                  ELSE "not_attachable")
    /\ UNCHANGED <<act, hist, info, exit_rx, h_moved, pruned, notSess>>

(* ---- run_session_host ---- *)

\* let mut info = store.load_session(id)?; status = Running; runner_pid
HostLoad ==
    /\ pc["host"] = "load"
    /\ IF act.exists
       THEN /\ info' = [info EXCEPT !["host"] =
                           [act.meta EXCEPT !.status = "Running",
                                            !.runner_pid = TRUE]]
            /\ pc' = Goto("host", "bind")
       ELSE /\ info' = info
            /\ pc' = HostEnds("error")
    /\ UNCHANGED <<act, hist, exit_rx, h_moved, pruned, notSess>>

\* remove a stale socket, UnixListener::bind(&socket_path)?
HostBind ==
    /\ pc["host"] = "bind"
    /\ IF act.exists
       THEN /\ act' = [act EXCEPT !.sock = TRUE]
            /\ info' = [info EXCEPT !["host"].socket_path = TRUE]
            /\ pc' = Goto("host", "write1")
       ELSE /\ pc' = HostEnds("error")
            /\ UNCHANGED <<act, info>>
    /\ UNCHANGED <<hist, exit_rx, h_moved, pruned, notSess>>

\* store.write_session(&info)? with status Running and the socket path
HostWriteRunning ==
    /\ pc["host"] = "write1"
    /\ IF act.exists
       THEN /\ act' = Written(info["host"])
            /\ pc' = Goto("host", "openpty")
       ELSE /\ act' = act
            /\ pc' = HostEnds("error")
    /\ UNCHANGED <<hist, info, exit_rx, h_moved, pruned, notSess>>

\* openpty(..)? and spawn_command(cmd)? both succeed.
HostSpawnChild ==
    /\ pc["host"] = "openpty"
    /\ info' = [info EXCEPT !["host"].child_pid = TRUE]
    /\ pc' = [pc EXCEPT !["host"] = "write2", !["child"] = "idle"]
    /\ UNCHANGED <<act, hist, exit_rx, h_moved, pruned, notSess>>

\* openpty(..)? or spawn_command(cmd)? returns Err: the host returns it.
HostSpawnFails ==
    /\ pc["host"] = "openpty"
    /\ pc' = HostEnds("error")
    /\ UNCHANGED <<act, hist, info, exit_rx, h_moved, pruned, notSess>>

\* store.write_session(&info)? with child_pid, then the log file is opened.
HostWriteChildPid ==
    /\ pc["host"] = "write2"
    /\ IF act.exists
       THEN /\ act' = Written(info["host"])
            /\ pc' = Goto("host", "serve")
       ELSE /\ act' = act
            /\ pc' = HostEnds("error")
    /\ UNCHANGED <<hist, info, exit_rx, h_moved, pruned, notSess>>

\* accept = listener.accept() => { let (stream, _) = accept?; .. } with Err
HostAcceptFails ==
    /\ pc["host"] = "serve"
    /\ pc' = HostEnds("error")
    /\ UNCHANGED <<act, hist, info, exit_rx, h_moved, pruned, notSess>>

\* The exit-watcher thread: if let Ok(status) = child.wait() { send } ; when
\* wait fails the sender is dropped and the receiver yields Err.
WatcherWait(outcome) ==
    /\ HostAlive
    /\ pc["child"] = "exited"
    /\ exit_rx = "none"
    /\ exit_rx' = outcome
    /\ UNCHANGED <<act, hist, pc, info, h_moved, pruned, notSess>>

\* exit = &mut exit_rx => ..: Ok(status) sets Exited, ended_at, exit_code.
HostSeesExit ==
    /\ pc["host"] = "serve"
    /\ exit_rx # "none"
    /\ IF exit_rx = "ok"
       THEN /\ info' = [info EXCEPT !["host"] =
                           [@ EXCEPT !.status = "Exited", !.ended_at = TRUE]]
            /\ pc' = Goto("host", "exit_write")
       ELSE /\ info' = info
            /\ pc' = Goto("host", "rm_sock")
    /\ UNCHANGED <<act, hist, exit_rx, h_moved, pruned, notSess>>

\* let _ = store.write_session(&info)
HostWriteExited ==
    /\ pc["host"] = "exit_write"
    /\ act' = IF act.exists THEN Written(info["host"]) ELSE act
    /\ pc' = Goto("host", "mv_from")
    /\ UNCHANGED <<hist, info, exit_rx, h_moved, pruned, notSess>>

\* let _ = fs::remove_file(&socket_path): the path under active.
HostRemoveSocket ==
    /\ pc["host"] = "rm_sock"
    /\ act' = IF act.exists THEN [act EXCEPT !.sock = FALSE] ELSE act
    /\ pc' = Goto("host", "done")
    /\ UNCHANGED <<hist, info, exit_rx, h_moved, pruned, notSess>>

(* ---- the TUI child: sync_running_task_pids ---- *)

ChildLoad ==
    /\ pc["child"] = "idle"
    /\ act.exists
    /\ info' = [info EXCEPT !["child"] = act.meta]
    /\ pc' = Goto("child", "loaded")
    /\ UNCHANGED <<act, hist, exit_rx, h_moved, pruned, notSess>>

\* info.running_task_pids = pids; store.write_session(&info)?
ChildWrite ==
    /\ pc["child"] = "loaded"
    /\ act' = IF act.exists
              THEN Written([info["child"] EXCEPT !.pids = ~@])
              ELSE act
    /\ pc' = Goto("child", "idle")
    /\ UNCHANGED <<hist, info, exit_rx, h_moved, pruned, notSess>>

\* The child process terminates.
ChildExit ==
    /\ ChildAlive
    /\ pc' = Goto("child", "exited")
    /\ UNCHANGED <<act, hist, info, exit_rx, h_moved, pruned, notSess>>

(* ---- kill_session ---- *)

\* let info = store.load_session(session_id)?
KillLoad(k) ==
    /\ pc[k] = "idle"
    /\ pc["launcher"] # "start"
    /\ IF act.exists
       THEN /\ info' = [info EXCEPT ![k] = act.meta]
            /\ pc' = Goto(k, "term")
       ELSE /\ info' = info
            /\ pc' = Goto(k, "failed")
    /\ UNCHANGED <<act, hist, exit_rx, h_moved, pruned, notSess>>

\* if let Some(pid) = info.runner_pid.or(info.child_pid) { terminate_pid? }
\* with the pid of a live process: it is terminated.
KillTerminate(k) ==
    /\ pc[k] = "term"
    /\ IF info[k].runner_pid
       THEN /\ HostAlive
            /\ pc' = [HostEnds("killed") EXCEPT ![k] = "mv_from"]
       ELSE IF info[k].child_pid
       THEN /\ ChildAlive
            /\ pc' = [pc EXCEPT ![k] = "mv_from", !["child"] = "exited"]
       ELSE pc' = Goto(k, "mv_from")
    /\ UNCHANGED <<act, hist, info, exit_rx, h_moved, pruned, notSess>>

\* terminate_pid on a process that has ended: `kill -TERM` succeeds while
\* the process is an unreaped zombie and fails once it has been reaped.
KillTerminateGone(k, reaped) ==
    /\ pc[k] = "term"
    /\ \/ info[k].runner_pid /\ ~HostAlive
       \/ ~info[k].runner_pid /\ info[k].child_pid /\ ~ChildAlive
    /\ pc' = Goto(k, IF reaped THEN "failed" ELSE "mv_from")
    /\ UNCHANGED <<act, hist, info, exit_rx, h_moved, pruned, notSess>>

(* ---- move_to_history, one file-system call at a time ---- *)

\* Where a mover goes when move_to_history returns Ok, and when it returns
\* Err (the host ignores it, kill_session returns it).
AfterMove(p) == IF p = "host" THEN "rm_sock" ELSE "done"
MoveFailed(p) == IF p = "host" THEN "rm_sock" ELSE "failed"

\* if from.exists() {
MoveCheckFrom(p) ==
    /\ pc[p] = "mv_from"
    /\ pc' = Goto(p, IF act.exists THEN "mv_to" ELSE "prune")
    /\ UNCHANGED <<act, hist, info, exit_rx, h_moved, pruned, notSess>>

\*     if to.exists() {
MoveCheckTo(p) ==
    /\ pc[p] = "mv_to"
    /\ pc' = Goto(p, IF hist.exists THEN "mv_rm" ELSE "mv_rename")
    /\ UNCHANGED <<act, hist, info, exit_rx, h_moved, pruned, notSess>>

\*         fs::remove_dir_all(&to)?; }
MoveRemoveTo(p) ==
    /\ pc[p] = "mv_rm"
    /\ IF hist.exists
       THEN /\ hist' = NoDir
            /\ pc' = Goto(p, "mv_rename")
       ELSE /\ hist' = hist
            /\ pc' = Goto(p, MoveFailed(p))
    /\ UNCHANGED <<act, info, exit_rx, h_moved, pruned, notSess>>

\*     fs::rename(from, to)?; }   (fails when from is gone or to is a
\* non-empty directory)
MoveRename(p) ==
    /\ pc[p] = "mv_rename"
    /\ IF act.exists /\ ~hist.exists
       THEN /\ hist' = act
            /\ act' = NoDir
            /\ h_moved' = (h_moved \/ p = "host")
            /\ pc' = Goto(p, "prune")
       ELSE /\ UNCHANGED <<act, hist, h_moved>>
            /\ pc' = Goto(p, MoveFailed(p))
    /\ UNCHANGED <<info, exit_rx, pruned, notSess>>

\* self.prune_history(max_entries)?: the session's directory is deleted
\* when it is among the oldest entries beyond the cap.
MovePrune(p, victim) ==
    /\ pc[p] = "prune"
    /\ IF victim /\ hist.exists
       THEN hist' = NoDir /\ pruned' = TRUE
       ELSE UNCHANGED <<hist, pruned>>
    /\ pc' = Goto(p, AfterMove(p))
    /\ UNCHANGED <<act, info, exit_rx, h_moved, notSess>>

(***************************************************************************)
(* One instance: InstanceInfo, the OSC title parser and the exit watcher   *)
(*                                                                         *)
(* Bytes are written as one-character strings ("ESC" and "BEL" stand for   *)
(* 0x1b and 0x07, "xFF" for a byte that is not valid UTF-8); a chunk is a  *)
(* sequence of them.                                                       *)
(***************************************************************************)
MaxTime   == 2      \* now_epoch() takes the values 1..MaxTime
MaxCode   == 1      \* the child's exit codes are 0..MaxCode
BufferCap == 2      \* SessionManager.buffer_cap

OSC_TITLE_LIMIT == 2048

ESC == "ESC"
BEL == "BEL"

\* InstanceStatus
Running     == [kind |-> "Running", code |-> 0]
Exited(n)   == [kind |-> "Exited", code |-> n]
ErrorStatus == [kind |-> "Error", code |-> 0]

\* Option::None for ended_at and child_pid, and for a number that did not parse
NoNum == -1

\* Option<String>
NoTitle     == [some |-> FALSE, text |-> <<>>]
SomeTitle(t) == [some |-> TRUE, text |-> t]

NoInfo == [present |-> FALSE, status |-> Running, ended_at |-> NoNum,
           child_pid |-> NoNum, title |-> NoTitle]

NewParser == [state |-> "Idle", buf |-> <<>>]

InfoInit ==
    /\ i_info = NoInfo
    /\ i_buffer = <<>>
    /\ i_parser = NewParser
    /\ i_watch = "none"
    /\ i_clock = 1
    /\ i_last = [op |-> "none", ret |-> FALSE, data |-> <<>>]

(* ---- string helpers, as the Rust std functions behave ---- *)

IsSpace(c) == c \in {" ", "\n"}

\* str::trim
RECURSIVE TrimStart(_)
TrimStart(t) == IF t # <<>> /\ IsSpace(Head(t)) THEN TrimStart(Tail(t)) ELSE t

RECURSIVE TrimEnd(_)
TrimEnd(t) ==
    IF t # <<>> /\ IsSpace(t[Len(t)]) THEN TrimEnd(SubSeq(t, 1, Len(t) - 1)) ELSE t

Trim(t) == TrimEnd(TrimStart(t))

\* str::starts_with
StartsWith(t, pre) == Len(t) >= Len(pre) /\ SubSeq(t, 1, Len(pre)) = pre

\* Position of the first c in t, 0 when there is none.
IndexOf(t, c) ==
    IF \E i \in 1..Len(t) : t[i] = c
    THEN CHOOSE i \in 1..Len(t) : t[i] = c /\ \A j \in 1..(i - 1) : t[j] # c
    ELSE 0

\* str::split(sep): always at least one piece.
RECURSIVE Split(_, _)
Split(t, sep) ==
    LET i == IndexOf(t, sep)
    IN IF i = 0 THEN <<t>>
       ELSE <<SubSeq(t, 1, i - 1)>> \o Split(SubSeq(t, i + 1, Len(t)), sep)

DigitChars == <<"0", "1", "2", "3", "4", "5", "6", "7", "8", "9">>
IsDigit(c) == \E d \in 1..10 : DigitChars[d] = c
DigitVal(c) == (CHOOSE d \in 1..10 : DigitChars[d] = c) - 1

\* A number written out in decimal, as printf and format! do.
RECURSIVE Decimal(_)
Decimal(n) ==
    IF n < 0 THEN <<"-">> \o Decimal(0 - n)
    ELSE IF n < 10 THEN <<DigitChars[n + 1]>>
    ELSE Decimal(n \div 10) \o <<DigitChars[(n % 10) + 1]>>

\* str::parse::<u32>().ok(): NoNum for an empty string, a character that is
\* not a digit, or a value above u32::MAX.
RECURSIVE ParseDigits(_, _)
ParseDigits(t, acc) ==
    IF t = <<>> THEN acc
    ELSE IF ~IsDigit(Head(t)) THEN NoNum
    ELSE LET d == DigitVal(Head(t))
         IN \* acc * 10 + d > u32::MAX = 4294967295
            IF acc > 429496729 \/ (acc = 429496729 /\ d > 5) THEN NoNum
            ELSE ParseDigits(Tail(t), acc * 10 + d)

ParseU32(t) == IF t = <<>> THEN NoNum ELSE ParseDigits(t, 0)

\* std::str::from_utf8(&self.buf).is_ok()
Utf8Ok(t) == \A i \in 1..Len(t) : t[i] # "xFF"

(* ---- OscParser::collect_titles ---- *)

\* enum OscState
OscStates == {"Idle", "Esc", "Osc", "OscCode", "Collect"}

\* A Collect arm that keeps every payload byte.
KeepsAll(len, limit) == TRUE

\* self.buf.len() < OSC_TITLE_LIMIT
HasRoom(len, limit) == len < limit

\* One byte through the state machine with a payload limit of limit bytes;
\* p = [state, buf, titles].
OscByteLim(p, b, limit) ==
    CASE p.state = "Idle" ->
           [p EXCEPT !.state = IF b = ESC THEN "Esc" ELSE "Idle"]
      [] p.state = "Esc" ->
           [p EXCEPT !.state = IF b = "]" THEN "Osc"
                               ELSE IF b # ESC THEN "Idle" ELSE "Esc"]
      [] p.state = "Osc" ->
           [p EXCEPT !.state = IF b \in {"0", "2"} THEN "OscCode" ELSE "Idle"]
      [] p.state = "OscCode" ->
           IF b = ";" THEN [p EXCEPT !.state = "Collect", !.buf = <<>>]
           ELSE [p EXCEPT !.state = "Idle"]
      [] p.state = "Collect" ->
           IF b = BEL
           THEN [state |-> "Idle", buf |-> <<>>,
                 titles |-> IF Utf8Ok(p.buf) THEN Append(p.titles, p.buf)
                            ELSE p.titles]
           ELSE IF HasRoom(Len(p.buf), limit)
           THEN [p EXCEPT !.buf = Append(p.buf, b)]
           ELSE p

\* One byte through the state machine of the program.
OscByte(p, b) == OscByteLim(p, b, OSC_TITLE_LIMIT)

\* for &b in data: the bytes in order.  The run is cut in two and the
\* parser after the first half is looked at before the second half starts.
RECURSIVE OscRun(_, _)
OscRun(p, data) ==
    IF data = <<>> THEN p
    ELSE IF Len(data) = 1 THEN OscByte(p, data[1])
    ELSE LET half == Len(data) \div 2
             q == OscRun(p, SubSeq(data, 1, half))
         IN IF q.state \notin OscStates THEN q
            ELSE OscRun(q, SubSeq(data, half + 1, Len(data)))

\* collect_titles(data, &mut titles) on a parser in state par, titles empty.
CollectTitles(par, data) ==
    OscRun([state |-> par.state, buf |-> par.buf, titles |-> <<>>], data)

(* ---- apply_cmdhub_title ---- *)

CMDHUB == <<"C", "M", "D", "H", "U", "B", ":">>
KeyState == <<"s", "t", "a", "t", "e">>
KeyPid   == <<"p", "i", "d">>
KeyCode  == <<"c", "o", "d", "e">>
ValRunning == <<"r", "u", "n", "n", "i", "n", "g">>
ValExited  == <<"e", "x", "i", "t", "e", "d">>

\* title.trim().starts_with("CMDHUB:")
IsCmdhubTitle(title) == StartsWith(Trim(title), CMDHUB)

\* part.splitn(2, '='): key and value, trimmed; no '=' gives value "".
PartKey(part) ==
    LET i == IndexOf(part, "=")
    IN Trim(IF i = 0 THEN part ELSE SubSeq(part, 1, i - 1))

PartValue(part) ==
    LET i == IndexOf(part, "=")
    IN Trim(IF i = 0 THEN <<>> ELSE SubSeq(part, i + 1, Len(part)))

\* The for loop over payload.split(';'); f = [state, pid, code], where
\* state is [some, text] and pid and code are numbers or NoNum.
RECURSIVE ScanParts(_, _)
ScanParts(parts, f) ==
    IF parts = <<>> THEN f
    ELSE LET key   == PartKey(Head(parts))
             value == PartValue(Head(parts))
             g == IF key = KeyState THEN [f EXCEPT !.state = SomeTitle(value)]
                  ELSE IF key = KeyPid THEN [f EXCEPT !.pid = ParseU32(value)]
                  ELSE IF key = KeyCode THEN [f EXCEPT !.code = ParseU32(value)]
                  ELSE f
         IN ScanParts(Tail(parts), g)

\* A state=exited that leaves the end timestamp as it was.
StampKept(now, old) == old

\* info.ended_at = Some(now_epoch())
Stamp(now, old) == now

\* A state=running that takes the message's pid even when it has none.
AdoptPidAlways(pid, old) == pid

\* pid.or(info.child_pid)
AdoptPid(pid, old) == IF pid # NoNum THEN pid ELSE old

\* apply_cmdhub_title(title, info) at time now: the new info.
ApplyCmdhubTitle(title, inf, now) ==
    LET t == Trim(title)
    IN IF ~StartsWith(t, CMDHUB) THEN inf
       ELSE LET payload == SubSeq(t, Len(CMDHUB) + 1, Len(t))
                f == ScanParts(Split(payload, ";"),
                               [state |-> NoTitle, pid |-> NoNum, code |-> NoNum])
            IN IF f.state = SomeTitle(ValRunning)
               THEN [inf EXCEPT !.status = Running,
                                !.ended_at = NoNum,
                                !.child_pid = AdoptPid(f.pid, inf.child_pid)]
               ELSE IF f.state = SomeTitle(ValExited)
               THEN [inf EXCEPT !.status = Exited(IF f.code # NoNum THEN f.code ELSE 0),
                                !.ended_at = Stamp(now, @)]
               ELSE inf

(* ---- append_output ---- *)

\* A loop that keeps the first generic title of the chunk.
FirstTitle(last, title) == IF last.some THEN last ELSE SomeTitle(title)

\* last_title = Some(title)
LastTitle(last, title) == SomeTitle(title)

\* The for loop over the collected titles; r = [info, last], last an
\* Option<String>.
RECURSIVE ApplyTitles(_, _, _)
ApplyTitles(titles, r, now) ==
    IF titles = <<>> THEN r
    ELSE ApplyTitles(Tail(titles),
                     IF IsCmdhubTitle(Head(titles))
                     THEN [r EXCEPT !.info = ApplyCmdhubTitle(Head(titles), r.info, now)]
                     ELSE [r EXCEPT !.last = LastTitle(r.last, Head(titles))],
                     now)

\* The info after append_output(data) on an entry with info inf and parser par.
AppendedInfo(inf, par, data, now) ==
    LET r == ApplyTitles(CollectTitles(par, data).titles,
                         [info |-> inf, last |-> NoTitle], now)
    IN IF r.last.some THEN [r.info EXCEPT !.title = r.last] ELSE r.info

(* ---- what the PTY can deliver in one read ---- *)

MaxPending == 2     \* bytes an unterminated OSC sequence may leave in the parser
ChildPid   == 4     \* child.process_id() of the instance's shell
JobPid     == 5     \* the foreground job reported by the bash hook

Osc(code, payload) == <<ESC, "]", code, ";">> \o payload \o <<BEL>>

\* cmdhub_emit "state=exited;code=$code"
ExitedMsg(n) ==
    CMDHUB \o KeyState \o <<"=">> \o ValExited \o <<";">> \o KeyCode
           \o <<"=", DigitChars[n + 1]>>

\* cmdhub_emit "state=running;pid=$tpgid"
RunningMsg(pid) ==
    CMDHUB \o KeyState \o <<"=">> \o ValRunning \o <<";">> \o KeyPid
           \o <<"=", DigitChars[pid + 1]>>

PlainTitles == {<<"h", "i">>, <<" ">> \o ExitedMsg(1), <<"xFF">>}

OutputChunks ==
    {Osc("0", ExitedMsg(n)) : n \in 0..MaxCode}
    \cup {Osc("0", RunningMsg(JobPid))}
    \cup {Osc("2", t) : t \in PlainTitles}
    \cup {<<"x">>, <<ESC, "]">>, <<ESC, "]", "2", ";", "x">>}

(* ---- titles by what they say ---- *)

\* A shell-state message: its state, pid and code fields, "none" when the
\* key is not there and "x" when the value is not a number.
Msg(st, pid, code) == [st |-> st, pid |-> pid, code |-> code]

StateMsgs ==
    { Msg("running", "none", "none"), Msg("running", "pid", "none"),
      Msg("running", "x", "none"),
      Msg("exited", "none", "none"), Msg("exited", "none", "code"),
      Msg("exited", "none", "x"),
      Msg("paused", "none", "none"), Msg("none", "pid", "none") }

ValPaused == <<"p", "a", "u", "s", "e", "d">>

\* The key=value parts of a message, in the order state, pid, code.
MsgParts(m) ==
    (IF m.st = "none" THEN <<>>
     ELSE << KeyState \o <<"=">> \o
             (CASE m.st = "running" -> ValRunning
                [] m.st = "exited" -> ValExited
                [] OTHER -> ValPaused) >>)
    \o (IF m.pid = "none" THEN <<>>
        ELSE << KeyPid \o <<"=">> \o
                (IF m.pid = "pid" THEN Decimal(JobPid) ELSE <<"x">>) >>)
    \o (IF m.code = "none" THEN <<>>
        ELSE << KeyCode \o <<"=">> \o
                (IF m.code = "code" THEN Decimal(MaxCode) ELSE <<"x">>) >>)

RECURSIVE JoinParts(_)
JoinParts(parts) ==
    IF parts = <<>> THEN <<>>
    ELSE IF Len(parts) = 1 THEN parts[1]
    ELSE parts[1] \o <<";">> \o JoinParts(Tail(parts))

\* A title: a state message (lead: a space before CMDHUB:) or other text.
MsgTitle(m, lead) == [kind |-> "msg", m |-> m, lead |-> lead, text |-> <<>>]
PlainTitle(text) ==
    [kind |-> "plain", m |-> Msg("none", "none", "none"), lead |-> FALSE,
     text |-> text]

TitleText(t) ==
    IF t.kind = "msg"
    THEN (IF t.lead THEN <<" ">> ELSE <<>>) \o CMDHUB \o JoinParts(MsgParts(t.m))
    ELSE t.text

\* What one read can hold: one title, or two behind each other.
TitleLists ==
    {<<MsgTitle(m, FALSE)>> : m \in StateMsgs}
    \cup {<<PlainTitle(<<"h", "i">>)>>, <<PlainTitle(<<"xFF">>)>>,
          <<MsgTitle(Msg("exited", "none", "code"), TRUE)>>}
    \cup {<<a, b>> : a, b \in {PlainTitle(<<"h", "i">>), PlainTitle(<<"y", "o">>),
                                MsgTitle(Msg("exited", "none", "code"), FALSE),
                                MsgTitle(Msg("running", "pid", "none"), FALSE)}}
    \cup {<<PlainTitle(<<"h", "i">>), MsgTitle(Msg("paused", "none", "none"), FALSE)>>,
          <<PlainTitle(<<"h", "i">>), PlainTitle(<<"xFF">>)>>,
          <<PlainTitle(<<"h", "i">>), MsgTitle(Msg("exited", "none", "code"), TRUE)>>}

RECURSIVE ChunkOf(_)
ChunkOf(ts) ==
    IF ts = <<>> THEN <<>>
    ELSE Osc(IF Head(ts).kind = "msg" THEN "0" ELSE "2", TitleText(Head(ts)))
         \o ChunkOf(Tail(ts))

TitleChunks == {ChunkOf(ts) : ts \in TitleLists}

(* ---- the operations ---- *)

Did(op, ret, data) == [op |-> op, ret |-> ret, data |-> data]

\* spawn_raw: the entry is inserted with status Running and the exit
\* watcher starts waiting for the child.
InfoSpawn ==
    /\ i_watch = "none"
    /\ i_info' = [present |-> TRUE, status |-> Running, ended_at |-> NoNum,
                  child_pid |-> ChildPid, title |-> NoTitle]
    /\ i_watch' = "armed"
    /\ i_last' = Did("spawn_raw", TRUE, <<>>)
    /\ UNCHANGED <<i_buffer, i_parser, i_clock, notInfo>>

\* The exit watcher after child.wait() returned outcome: the write-back
\* under the lock, when the entry is still in the table.
ExitWatcher(outcome) ==
    /\ i_watch = "armed"
    /\ i_watch' = "fired"
    /\ i_info' = IF i_info.present
                 THEN [i_info EXCEPT !.ended_at = i_clock, !.status = outcome]
                 ELSE i_info
    /\ i_last' = Did("exit_watcher", TRUE, <<>>)
    /\ UNCHANGED <<i_buffer, i_parser, i_clock, notInfo>>

\* append_output(id, data)
AppendOutput(data) ==
    /\ LET p == CollectTitles(i_parser, data)
       IN /\ Len(p.buf) <= MaxPending
          /\ IF i_info.present
             THEN /\ i_buffer' = RingPush(i_buffer, BufferCap, data)
                  /\ i_parser' = [state |-> p.state, buf |-> p.buf]
                  /\ i_info' = AppendedInfo(i_info, i_parser, data, i_clock)
             ELSE UNCHANGED <<i_buffer, i_parser, i_info>>
    /\ i_last' = Did("append_output", TRUE, data)
    /\ UNCHANGED <<i_watch, i_clock, notInfo>>

\* matches!(entry.info.status, InstanceStatus::Exited(_))
Removable(st) == st.kind = "Exited"

\* remove_if_exited(id)
RemoveIfExited ==
    /\ IF i_info.present /\ Removable(i_info.status)
       THEN /\ i_info' = NoInfo
            /\ i_buffer' = <<>>
            /\ i_parser' = NewParser
            /\ i_last' = Did("remove_if_exited", TRUE, <<>>)
       ELSE /\ UNCHANGED <<i_info, i_buffer, i_parser>>
            /\ i_last' = Did("remove_if_exited", FALSE, <<>>)
    /\ UNCHANGED <<i_watch, i_clock, notInfo>>

\* Time passes.
InfoTick ==
    /\ i_clock < MaxTime
    /\ i_clock' = i_clock + 1
    /\ i_last' = Did("tick", TRUE, <<>>)
    /\ UNCHANGED <<i_info, i_buffer, i_parser, i_watch, notInfo>>

(***************************************************************************)
(* parse_ansi_text: log text with SGR escape sequences to styled runs      *)
(*                                                                         *)
(* The text is a sequence of one-character strings.  A Style is ratatui's: *)
(* fg, bg, and the sets of modifiers added and removed.                    *)
(***************************************************************************)
MaxPieces == 4      \* pieces an input is put together from

NoColor == <<>>

\* Style::default()
DefaultStyle == [fg |-> NoColor, bg |-> NoColor, add |-> {}, sub |-> {}]

\* Style::add_modifier / Style::remove_modifier
AddModifier(st, m) == [st EXCEPT !.sub = @ \ m, !.add = @ \cup m]
RemoveModifier(st, m) == [st EXCEPT !.add = @ \ m, !.sub = @ \cup m]

\* A clamp_u8 that truncates like `value as u8`.
ClampU8Wraps(v) == v % 256

ClampU8(v) == IF v < 0 THEN 0 ELSE IF v > 255 THEN 255 ELSE v

\* An ansi_color that knows no colour.
AnsiColorBlind(code) == NoColor

AnsiColor(code) ==
    CASE code = 30 -> <<"Black">>       [] code = 31 -> <<"Red">>
      [] code = 32 -> <<"Green">>       [] code = 33 -> <<"Yellow">>
      [] code = 34 -> <<"Blue">>        [] code = 35 -> <<"Magenta">>
      [] code = 36 -> <<"Cyan">>        [] code = 37 -> <<"Gray">>
      [] code = 90 -> <<"DarkGray">>    [] code = 91 -> <<"LightRed">>
      [] code = 92 -> <<"LightGreen">>  [] code = 93 -> <<"LightYellow">>
      [] code = 94 -> <<"LightBlue">>   [] code = 95 -> <<"LightMagenta">>
      [] code = 96 -> <<"LightCyan">>   [] code = 97 -> <<"White">>
      [] OTHER -> NoColor

\* value.parse::<i64>().ok() for the decimal strings the inputs hold: it
\* succeeds on an optional sign followed by a non-empty string of digits.
Unsigned(t) == IF t # <<>> /\ Head(t) \in {"-", "+"} THEN Tail(t) ELSE t

IsNumber(t) ==
    Unsigned(t) # <<>> /\ \A i \in 1..Len(Unsigned(t)) : IsDigit(Unsigned(t)[i])

RECURSIVE DigitsValue(_, _)
DigitsValue(t, acc) ==
    IF t = <<>> THEN acc ELSE DigitsValue(Tail(t), acc * 10 + DigitVal(Head(t)))

NumberValue(t) ==
    IF Head(t) = "-" THEN 0 - DigitsValue(Unsigned(t), 0)
    ELSE DigitsValue(Unsigned(t), 0)

\* sequence.split(';').filter_map(|value| value.parse::<i64>().ok())
RECURSIVE ParsedCodes(_)
ParsedCodes(parts) ==
    IF parts = <<>> THEN <<>>
    ELSE (IF IsNumber(Head(parts)) THEN <<NumberValue(Head(parts))>> ELSE <<>>)
         \o ParsedCodes(Tail(parts))

SetColor(st, isFg, color) ==
    IF isFg THEN [st EXCEPT !.fg = color] ELSE [st EXCEPT !.bg = color]

\* The while loop of apply_sgr; index counts from 1.
RECURSIVE ApplyCodes(_, _, _)
ApplyCodes(codes, index, st) ==
    IF index > Len(codes) THEN st
    ELSE LET c == codes[index]
             n == Len(codes)
         IN IF c \in {38, 48} /\ index + 1 <= n /\ codes[index + 1] = 5
               /\ index + 2 <= n
            THEN ApplyCodes(codes, index + 3,
                     SetColor(st, c = 38, <<"Indexed", ClampU8(codes[index + 2])>>))
            ELSE IF c \in {38, 48} /\ index + 1 <= n /\ codes[index + 1] = 2
                    /\ index + 4 <= n
            THEN ApplyCodes(codes, index + 5,
                     SetColor(st, c = 38,
                              <<"Rgb", ClampU8(codes[index + 2]),
                                ClampU8(codes[index + 3]), ClampU8(codes[index + 4])>>))
            ELSE ApplyCodes(codes, index + 1,
                     CASE c = 0 -> DefaultStyle
                       [] c = 1 -> AddModifier(st, {"BOLD"})
                       [] c = 2 -> AddModifier(st, {"DIM"})
                       [] c = 3 -> AddModifier(st, {"ITALIC"})
                       [] c = 4 -> AddModifier(st, {"UNDERLINED"})
                       [] c = 7 -> AddModifier(st, {"REVERSED"})
                       [] c = 9 -> AddModifier(st, {"CROSSED_OUT"})
                       [] c = 22 -> RemoveModifier(st, {"BOLD", "DIM"})
                       [] c = 23 -> RemoveModifier(st, {"ITALIC"})
                       [] c = 24 -> RemoveModifier(st, {"UNDERLINED"})
                       [] c = 27 -> RemoveModifier(st, {"REVERSED"})
                       [] c = 29 -> RemoveModifier(st, {"CROSSED_OUT"})
                       [] c \in 30..37 \cup 90..97 -> [st EXCEPT !.fg = AnsiColor(c)]
                       [] c \in 40..47 \cup 100..107 ->
                            [st EXCEPT !.bg = AnsiColor(c - 10)]
                       [] c = 39 -> [st EXCEPT !.fg = NoColor]
                       [] c = 49 -> [st EXCEPT !.bg = NoColor]
                       [] OTHER -> st)

\* apply_sgr(sequence, &mut style)
ApplySgr(sequence, st) ==
    ApplyCodes(IF sequence = <<>> THEN <<0>>
               ELSE ParsedCodes(Split(sequence, ";")), 1, st)

Span(content, st) == [content |-> content, style |-> st]

\* if !buffer.is_empty() { spans.push(Span::styled(buffer.clone(), style)) }
Flushed(p) ==
    IF p.buffer = <<>> THEN p
    ELSE [p EXCEPT !.spans = Append(@, Span(p.buffer, p.style)), !.buffer = <<>>]

\* The while loop of parse_ansi_text from character i on; p holds lines,
\* spans, style and buffer, and inSeq/sequence while the inner loop collects
\* an escape sequence up to its 'm'.
RECURSIVE AnsiScan(_, _, _)
AnsiScan(input, i, p) ==
    IF i > Len(input) THEN p
    ELSE LET ch == input[i]
         IN IF p.inSeq
            THEN IF ch = "m"
                 THEN AnsiScan(input, i + 1,
                          [p EXCEPT !.style = ApplySgr(p.sequence, @),
                                    !.inSeq = FALSE, !.sequence = <<>>])
                 ELSE AnsiScan(input, i + 1, [p EXCEPT !.sequence = Append(@, ch)])
            ELSE IF ch = ESC /\ i < Len(input) /\ input[i + 1] = "["
            THEN AnsiScan(input, i + 2,
                          [Flushed(p) EXCEPT !.inSeq = TRUE, !.sequence = <<>>])
            ELSE IF ch = "\n"
            THEN AnsiScan(input, i + 1,
                          [Flushed(p) EXCEPT !.lines = Append(@, Flushed(p).spans),
                                             !.spans = <<>>])
            ELSE AnsiScan(input, i + 1, [p EXCEPT !.buffer = Append(@, ch)])

\* parse_ansi_text(input): the lines, each a sequence of spans.
ParseAnsiText(input) ==
    LET p == Flushed(AnsiScan(input, 1,
                 [lines |-> <<>>, spans |-> <<>>, style |-> DefaultStyle,
                  buffer |-> <<>>, inSeq |-> FALSE, sequence |-> <<>>]))
    IN IF p.spans # <<>> THEN Append(p.lines, p.spans) ELSE p.lines

(* ---- the inputs ---- *)

Sgr(params) == <<ESC, "[">> \o params \o <<"m">>

SgrParams ==
    { <<>>, <<"0">>, <<"1", ";", "3", "1">>, <<"1", ";", "0">>, <<"4">>,
      <<"2", "2">>, <<"4", "2">>, <<"3", "8", ";", "5", ";", "9">>, <<";">> }

Texts == { <<"E", "R", "R">>, <<" ", "o", "k">>, <<"\n">> }

Pieces == {[kind |-> "sgr", body |-> ps] : ps \in SgrParams}
          \cup {[kind |-> "text", body |-> t] : t \in Texts}

PieceText(pc0) == IF pc0.kind = "sgr" THEN Sgr(pc0.body) ELSE pc0.body

AnsiInit ==
    /\ a_input = <<>>
    /\ a_pieces = <<>>

\* The text grows by one piece: an SGR sequence or plain characters.
AnsiAppend(piece) ==
    /\ Len(a_pieces) < MaxPieces
    /\ a_input' = a_input \o PieceText(piece)
    /\ a_pieces' = Append(a_pieces, piece)
    /\ UNCHANGED notAnsi

(***************************************************************************)
(* The input path: attach clients -> sockets -> input queue -> PTY         *)
(*                                                                         *)
(* A byte is a record: the detach byte 0x02, or the k-th data byte typed   *)
(* at connection conn.  Every connection starts attached.                  *)
(***************************************************************************)
MaxTyped == 3       \* data bytes typed at one connection in one behaviour
MaxStdin == 2       \* stands for the client's 1024-byte stdin buffer
MaxRead  == 2       \* stands for the handler's 1024-byte socket buffer
InputCap == 2       \* stands for mpsc::channel(100)

DetachByte == [det |-> TRUE, conn |-> "", k |-> 0]
DataByte(c, k) == [det |-> FALSE, conn |-> c, k |-> k]

\* What one stdin read can return when n data bytes were typed before:
\* 1..MaxStdin bytes, each the next data byte or 0x02.
RECURSIVE Typed(_, _, _)
Typed(c, n, shape) ==
    IF shape = <<>> THEN <<>>
    ELSE IF Head(shape) = "x" THEN <<DetachByte>> \o Typed(c, n, Tail(shape))
    ELSE <<DataByte(c, n + 1)>> \o Typed(c, n + 1, Tail(shape))

Shapes == UNION {[1..len -> {"d", "x"}] : len \in 1..MaxStdin}

DataCount(shape) == Cardinality({i \in 1..Len(shape) : shape[i] = "d"})

InputInit ==
    /\ in_pc = [c \in Conns |-> "select"]
    /\ in_buf = [c \in Conns |-> <<>>]
    /\ in_typed = [c \in Conns |-> 0]
    /\ in_sock = [c \in Conns |-> <<>>]
    /\ in_shut = [c \in Conns |-> FALSE]
    /\ in_handler = [c \in Conns |-> "read"]
    /\ in_hold = [c \in Conns |-> <<>>]
    /\ in_queue = <<>>
    /\ in_pty = <<>>
    /\ in_host = "running"
    /\ in_written = [c \in Conns |-> <<>>]
    /\ in_chunks = <<>>

(* ---- run_attach: the stdin relay loop ---- *)

\* res = stdin_async.read(&mut buf) with n > 0
ClientRead(c, shape) ==
    /\ in_pc[c] = "select"
    /\ in_typed[c] + DataCount(shape) <= MaxTyped
    /\ in_buf' = [in_buf EXCEPT ![c] = Typed(c, in_typed[c], shape)]
    /\ in_typed' = [in_typed EXCEPT ![c] = @ + DataCount(shape)]
    /\ in_pc' = [in_pc EXCEPT ![c] = "relay"]
    /\ UNCHANGED <<in_sock, in_shut, in_handler, in_hold, in_queue, in_pty,
                   in_host, in_written, in_chunks, notInput>>

\* A relay loop that copies the whole chunk.
RelayAll(chunk) == chunk

\* for byte in &buf[..n] { if *byte == 0x02 { detach = true; break; }
\*                         out.push(*byte); }
RECURSIVE RelayOut(_)
RelayOut(chunk) ==
    IF chunk = <<>> \/ Head(chunk) = DetachByte THEN <<>>
    ELSE <<Head(chunk)>> \o RelayOut(Tail(chunk))

HasDetach(chunk) == \E i \in 1..Len(chunk) : chunk[i] = DetachByte

\* The body of the read arm: write_all(&out) when out is not empty, break on
\* a write error or on detach; after the loop, writer.shutdown().
ClientRelay(c) ==
    /\ in_pc[c] = "relay"
    /\ LET out == RelayOut(in_buf[c])
           ok  == in_host = "running"
       IN /\ IF out # <<>> /\ ok
             THEN /\ in_sock' = [in_sock EXCEPT ![c] = @ \o out]
                  /\ in_written' = [in_written EXCEPT ![c] = @ \o out]
             ELSE UNCHANGED <<in_sock, in_written>>
          /\ IF (out # <<>> /\ ~ok) \/ HasDetach(in_buf[c])
             THEN /\ in_pc' = [in_pc EXCEPT ![c] = "detached"]
                  /\ in_shut' = [in_shut EXCEPT ![c] = TRUE]
             ELSE /\ in_pc' = [in_pc EXCEPT ![c] = "select"]
                  /\ in_shut' = in_shut
    /\ in_buf' = [in_buf EXCEPT ![c] = <<>>]
    /\ UNCHANGED <<in_typed, in_handler, in_hold, in_queue, in_pty, in_host,
                   in_chunks, notInput>>

\* n == 0: stdin is at its end; break, then writer.shutdown().
ClientStdinEof(c) ==
    /\ in_pc[c] = "select"
    /\ in_pc' = [in_pc EXCEPT ![c] = "detached"]
    /\ in_shut' = [in_shut EXCEPT ![c] = TRUE]
    /\ UNCHANGED <<in_buf, in_typed, in_sock, in_handler, in_hold, in_queue,
                   in_pty, in_host, in_written, in_chunks, notInput>>

\* _ = &mut output_task => break: the host closed the connection.
ClientSeesClose(c) ==
    /\ in_pc[c] = "select"
    /\ in_host = "stopped"
    /\ in_pc' = [in_pc EXCEPT ![c] = "detached"]
    /\ in_shut' = [in_shut EXCEPT ![c] = TRUE]
    /\ UNCHANGED <<in_buf, in_typed, in_sock, in_handler, in_hold, in_queue,
                   in_pty, in_host, in_written, in_chunks, notInput>>

(* ---- handle_attach_stream: the read loop ---- *)

\* reader.read(&mut buf) returned n > 0 bytes of what is in the socket.
HandlerRead(c, n) ==
    /\ in_host = "running"
    /\ in_handler[c] = "read"
    /\ n \in 1..Min(MaxRead, Len(in_sock[c]))
    /\ in_hold' = [in_hold EXCEPT ![c] = SubSeq(in_sock[c], 1, n)]
    /\ in_sock' = [in_sock EXCEPT ![c] = SubSeq(@, n + 1, Len(@))]
    /\ in_handler' = [in_handler EXCEPT ![c] = "send"]
    /\ UNCHANGED <<in_pc, in_buf, in_typed, in_shut, in_queue, in_pty, in_host,
                   in_written, in_chunks, notInput>>

\* A queue that puts the newest chunk first.
EnqueueFirst(q, chunk) == <<chunk>> \o q

\* mpsc::Sender::send
Enqueue(q, chunk) == Append(q, chunk)

\* input_tx.send(buf[..n].to_vec()).await, once the queue has room
HandlerSend(c) ==
    /\ in_host = "running"
    /\ in_handler[c] = "send"
    /\ Len(in_queue) < InputCap
    /\ in_queue' = Enqueue(in_queue, in_hold[c])
    /\ in_hold' = [in_hold EXCEPT ![c] = <<>>]
    /\ in_handler' = [in_handler EXCEPT ![c] = "read"]
    /\ UNCHANGED <<in_pc, in_buf, in_typed, in_sock, in_shut, in_pty, in_host,
                   in_written, in_chunks, notInput>>

\* reader.read returned 0 (the client shut down its write side and nothing
\* is left to read): break, write_task.abort(), the handler task ends.
HandlerEof(c) ==
    /\ in_host = "running"
    /\ in_handler[c] = "read"
    /\ in_shut[c] /\ in_sock[c] = <<>>
    /\ in_handler' = [in_handler EXCEPT ![c] = "ended"]
    /\ UNCHANGED <<in_pc, in_buf, in_typed, in_sock, in_shut, in_hold, in_queue,
                   in_pty, in_host, in_written, in_chunks, notInput>>

(* ---- run_session_host: the writer thread and the end of the host ---- *)

\* while let Some(data) = input_rx.blocking_recv() { writer.write_all(&data) }
WriterThread ==
    /\ in_host = "running"
    /\ in_queue # <<>>
    /\ in_pty' = in_pty \o Head(in_queue)
    /\ in_chunks' = Append(in_chunks, Head(in_queue))
    /\ in_queue' = Tail(in_queue)
    /\ UNCHANGED <<in_pc, in_buf, in_typed, in_sock, in_shut, in_handler,
                   in_hold, in_host, in_written, notInput>>

\* The child exits and the host leaves its select loop: the process ends
\* and with it every handler task.
InputHostStops ==
    /\ in_host = "running"
    /\ in_host' = "stopped"
    /\ in_handler' = [c \in Conns |-> "ended"]
    /\ UNCHANGED <<in_pc, in_buf, in_typed, in_sock, in_shut, in_hold, in_queue,
                   in_pty, in_written, in_chunks, notInput>>

(***************************************************************************)
(* apply_sgr: one Style taken through SGR parameter lists                  *)
(*                                                                         *)
(* The parameters are integers; they are written out in decimal, joined by *)
(* ';', and the text is what apply_sgr gets.                               *)
(***************************************************************************)
RECURSIVE Joined(_)
Joined(codes) ==
    IF codes = <<>> THEN <<>>
    ELSE IF Len(codes) = 1 THEN Decimal(codes[1])
    ELSE Decimal(codes[1]) \o <<";">> \o Joined(Tail(codes))

\* Colour components below, inside and above the u8 range.
Components == {-1, 7, 300}
Triples == {<<-1, 7, 300>>, <<7, 7, 7>>}

\* 38/48 sequences that are complete.
CompleteExt ==
    {<<k, 5, n>> : k \in {38, 48}, n \in Components}
    \cup {<<k, 2>> \o t : k \in {38, 48}, t \in Triples}

\* 38/48 sequences with too few parameters after them.
ShortExt ==
    UNION {{<<k>>, <<k, 5>>, <<k, 2>>, <<k, 2, 7>>, <<k, 2, 7, 31>>, <<k, 9>>}
             : k \in {38, 48}}

SgrLists ==
    CompleteExt \cup ShortExt
    \cup {e \o <<1>> : e \in CompleteExt}
    \cup {<<77>> \o e : e \in {<<38, 5, 7>>, <<48, 2, 7>>, <<1>>, <<>>}}
    \cup {<<5, 31>>, <<39>>, <<49, 22>>}

SgrInit ==
    /\ g_style = DefaultStyle
    /\ g_codes = <<>>

\* apply_sgr(sequence, &mut style) for the text of one parameter list
ApplySgrTo(codes) ==
    /\ g_style' = ApplySgr(Joined(codes), g_style)
    /\ g_codes' = codes
    /\ UNCHANGED notSgr

(***************************************************************************)
(* One OscParser, as collect_titles leaves it from call to call            *)
(***************************************************************************)
MaxFed == 4     \* collect_titles calls in one behaviour

\* n bytes of plain text
Filler(n) == [i \in 1..n |-> "x"]

\* ESC ] 2 ; : a title sequence up to its payload
TitleStart == <<ESC, "]", "2", ";">>

\* Complete title sequences
WellFormed == {Osc(c, <<"h", "i">>) : c \in {"0", "2"}}

\* What one collect_titles call can be given: one byte, a title sequence
\* up to its payload, a whole title sequence, or a payload that fills the
\* buffer up to its last byte or altogether.
OscChunks ==
    {<<b>> : b \in {ESC, "]", "0", "2", ";", BEL, "x", "xFF"}}
    \cup {TitleStart} \cup WellFormed
    \cup {Filler(OSC_TITLE_LIMIT - 1), Filler(OSC_TITLE_LIMIT)}

HasBel(data) == \E i \in DOMAIN data : data[i] = BEL

OscInit ==
    /\ o_parser = NewParser
    /\ o_titles = <<>>
    /\ o_payload = <<>>
    /\ o_last = <<>>
    /\ o_fed = 0

\* self.osc_parser.collect_titles(data, &mut titles), titles empty before
OscFeed(data) ==
    /\ o_fed < MaxFed
    /\ LET p == CollectTitles(o_parser, data)
       IN /\ o_parser' = [state |-> p.state, buf |-> p.buf]
          /\ o_titles' = p.titles
    /\ o_payload' = IF o_parser.state = "Collect" /\ ~HasBel(data)
                    THEN o_payload \o data ELSE <<>>
    /\ o_last' = data
    /\ o_fed' = o_fed + 1
    /\ UNCHANGED notOsc

(***************************************************************************)
(* The instance table, the children and their exit watchers                *)
(***************************************************************************)
MaxLife == 1    \* instances spawned in one behaviour

\* The ids next_instance_id hands out, and one it never does.
LifeIds == 1..(MaxLife + 1)

\* The child of an instance: not spawned, alive, or dead with what
\* child.wait() returns: Ok(exit status) or Err.
NoChild    == [state |-> "none", ok |-> TRUE, code |-> 0]
AliveChild == [state |-> "alive", ok |-> TRUE, code |-> 0]
DeadChild(ok, code) == [state |-> "dead", ok |-> ok, code |-> code]

WaitResults == {DeadChild(TRUE, c) : c \in 0..MaxCode} \cup {DeadChild(FALSE, 0)}

\* What append_output is given: plain output, or the hook's running message.
LifeChunks == {<<"x">>, <<"y", "z">>, Osc("0", RunningMsg(JobPid))}

LifeInit ==
    /\ l_table = <<>>
    /\ l_count = 0
    /\ l_child = [id \in LifeIds |-> NoChild]
    /\ l_watch = [id \in LifeIds |-> "none"]
    /\ l_held = {}
    /\ l_signalled = {}
    /\ l_pids = {}
    /\ l_clock = 1
    /\ l_last = Returned("none", 0, FALSE)

\* spawn_raw: the entry, the child, the exit watcher; the caller gets the
\* master/writer pair.
LifeSpawnRaw ==
    /\ l_count < MaxLife
    /\ LET id == l_count + 1
       IN /\ l_count' = id
          /\ l_table' = [i \in DOMAIN l_table \cup {id} |->
                           IF i = id
                           THEN [info |-> [present |-> TRUE, status |-> Running,
                                           ended_at |-> NoNum,
                                           child_pid |-> ChildPid,
                                           title |-> NoTitle],
                                 buffer |-> <<>>, parser |-> NewParser,
                                 master |-> FALSE]
                           ELSE l_table[i]]
          /\ l_child' = [l_child EXCEPT ![id] = AliveChild]
          /\ l_watch' = [l_watch EXCEPT ![id] = "waiting"]
          /\ l_held' = l_held \cup {id}
          /\ l_last' = Returned("spawn_raw", id, TRUE)
    /\ UNCHANGED <<l_signalled, l_clock, l_pids, notLife>>

\* The child ends, by itself or by a signal; child.wait() will return w.
ChildEnds(id, w) ==
    /\ l_child[id].state = "alive"
    /\ l_child' = [l_child EXCEPT ![id] = w]
    /\ l_last' = Returned("child_ends", id, TRUE)
    /\ UNCHANGED <<l_table, l_count, l_watch, l_held, l_signalled, l_clock,
                   l_pids, notLife>>

\* A write-back that takes every result of child.wait() for an exit status.
WaitStatusAlwaysExited(w) == Exited(w.code)

\* match status { Ok(exit) => Exited(exit.exit_code()), Err(err) => Error(..) }
WaitStatus(w) == IF w.ok THEN Exited(w.code) ELSE ErrorStatus

\* A write-back that also empties the entry's buffer.
WrittenBackCleared(e, w, now) ==
    [e EXCEPT !.info.ended_at = now, !.info.status = WaitStatus(w),
              !.buffer = <<>>]

\* entry.info.ended_at = Some(ended_at); entry.info.status = match status ..
WrittenBack(e, w, now) ==
    [e EXCEPT !.info.ended_at = now, !.info.status = WaitStatus(w)]

\* The exit watcher: child.wait() has returned, the lock is taken and the
\* entry, if it is still in the table, gets the status and the end time.
WatcherWritesBack(id) ==
    /\ l_watch[id] = "waiting"
    /\ l_child[id].state = "dead"
    /\ l_watch' = [l_watch EXCEPT ![id] = "done"]
    /\ l_table' = IF id \in DOMAIN l_table
                  THEN [l_table EXCEPT ![id] = WrittenBack(l_table[id], l_child[id], l_clock)]
                  ELSE l_table
    /\ l_last' = Returned("exit_watcher", id, TRUE)
    /\ UNCHANGED <<l_count, l_child, l_held, l_signalled, l_clock, l_pids, notLife>>

\* append_output(id, data)
LifeAppendOutput(id, data) ==
    /\ IF id \in DOMAIN l_table
       THEN LET e == l_table[id]
                p == CollectTitles(e.parser, data)
            IN /\ Len(p.buf) <= MaxPending
               /\ l_table' = [l_table EXCEPT ![id] =
                      [info |-> AppendedInfo(e.info, e.parser, data, l_clock),
                       buffer |-> RingPush(e.buffer, BufferCap, data),
                       parser |-> [state |-> p.state, buf |-> p.buf],
                       master |-> e.master]]
       ELSE UNCHANGED l_table
    /\ l_last' = Returned("append_output", id, TRUE)
    /\ UNCHANGED <<l_count, l_child, l_watch, l_held, l_signalled, l_clock,
                   l_pids, notLife>>

\* buffer_snapshot(id)
BufferSnapshot(table, id) ==
    IF id \in DOMAIN table THEN table[id].buffer ELSE <<>>

\* kill(id): Err for an unknown id; else the killer signals the child and
\* kill returns what the killer returns, which for a child that has ended
\* can be Ok or Err.
LifeKill(id, ok) ==
    /\ IF id \in DOMAIN l_table
       THEN /\ l_signalled' = l_signalled \cup {id}
            /\ (l_child[id].state = "alive" => ok)
            /\ l_last' = Returned("kill", id, ok)
       ELSE /\ UNCHANGED l_signalled
            /\ ~ok
            /\ l_last' = Returned("kill", id, FALSE)
    /\ UNCHANGED <<l_table, l_count, l_child, l_watch, l_held, l_clock, l_pids, notLife>>

\* kill_and_remove(id)
LifeKillAndRemove(id) ==
    /\ IF id \in DOMAIN l_table
       THEN /\ l_table' = RemoveEntry(l_table, id)
            /\ l_signalled' = l_signalled \cup {id}
       ELSE UNCHANGED <<l_table, l_signalled>>
    /\ l_last' = Returned("kill_and_remove", id, id \in DOMAIN l_table)
    /\ UNCHANGED <<l_count, l_child, l_watch, l_held, l_clock, l_pids, notLife>>

\* remove(id)
LifeRemove(id) ==
    /\ l_table' = IF id \in DOMAIN l_table THEN RemoveEntry(l_table, id)
                  ELSE l_table
    /\ l_last' = Returned("remove", id, id \in DOMAIN l_table)
    /\ UNCHANGED <<l_count, l_child, l_watch, l_held, l_signalled, l_clock,
                   l_pids, notLife>>

\* remove_if_exited(id)
LifeRemoveIfExited(id) ==
    /\ IF id \in DOMAIN l_table /\ Removable(l_table[id].info.status)
       THEN /\ l_table' = RemoveEntry(l_table, id)
            /\ l_last' = Returned("remove_if_exited", id, TRUE)
       ELSE /\ UNCHANGED l_table
            /\ l_last' = Returned("remove_if_exited", id, FALSE)
    /\ UNCHANGED <<l_count, l_child, l_watch, l_held, l_signalled, l_clock,
                   l_pids, notLife>>

\* take_master(id)
LifeTakeMaster(id) ==
    /\ IF id \in DOMAIN l_table /\ l_table[id].master
       THEN /\ l_table' = [l_table EXCEPT ![id].master = FALSE]
            /\ l_held' = l_held \cup {id}
            /\ l_last' = Returned("take_master", id, TRUE)
       ELSE /\ UNCHANGED <<l_table, l_held>>
            /\ l_last' = Returned("take_master", id, FALSE)
    /\ UNCHANGED <<l_count, l_child, l_watch, l_signalled, l_clock, l_pids, notLife>>

\* return_master(id, master, writer) by the caller that holds the pair
LifeReturnMaster(id) ==
    /\ id \in l_held
    /\ l_held' = l_held \ {id}
    /\ l_table' = IF id \in DOMAIN l_table
                  THEN [l_table EXCEPT ![id].master = TRUE]
                  ELSE l_table
    /\ l_last' = Returned("return_master", id, TRUE)
    /\ UNCHANGED <<l_count, l_child, l_watch, l_signalled, l_clock, l_pids, notLife>>

\* if let Some(pid) = entry.info.child_pid { libc::kill(pid, signal) }
SignalledPids(table) ==
    {table[id].info.child_pid : id \in {i \in DOMAIN table : table[i].info.child_pid # NoNum}}

\* terminate_all(signal): a signal for every entry of the table, sent to
\* the pid in the entry's info, or through the killer when there is none
LifeTerminateAll ==
    /\ l_signalled' = l_signalled \cup DOMAIN l_table
    /\ l_pids' = l_pids \cup SignalledPids(l_table)
    /\ l_last' = Returned("terminate_all", 0, TRUE)
    /\ UNCHANGED <<l_table, l_count, l_child, l_watch, l_held, l_clock, notLife>>

\* Time passes.
LifeTick ==
    /\ l_clock < MaxTime
    /\ l_clock' = l_clock + 1
    /\ l_last' = Returned("tick", 0, TRUE)
    /\ UNCHANGED <<l_table, l_count, l_child, l_watch, l_held, l_signalled,
                   l_pids, notLife>>

(***************************************************************************)
(* next_instance_id: the ids of concurrent spawns                          *)
(***************************************************************************)
MaxIssued == 2      \* next_instance_id calls per task in one behaviour

\* Task ids, one of which looks like an instance id of the other.
IdTasks == {<<"a">>, <<"a", "#", "1">>}

\* format!("{}#{}", task_id, *counter)
FormatId(task, counter) == task \o <<"#">> \o Decimal(counter)

IdsInit ==
    /\ d_counters = [t \in IdTasks |-> 0]
    /\ d_table = {}
    /\ d_pc = [c \in Callers |-> "idle"]
    /\ d_id = [c \in Callers |-> <<>>]
    /\ d_issued = <<>>

\* A counter that stays where it is once it has counted to one.
NextCountStuck(n) == IF n = 0 THEN 1 ELSE n

\* *counter += 1
NextCount(n) == n + 1

\* spawn_raw of caller c up to next_instance_id(&task.id): under the lock
\* of the counters the task's counter goes up and gives the id.
NextInstanceId(c, t) ==
    /\ d_pc[c] = "idle"
    /\ d_counters[t] < MaxIssued
    /\ d_counters' = [d_counters EXCEPT ![t] = NextCount(d_counters[t])]
    /\ d_id' = [d_id EXCEPT ![c] = FormatId(t, NextCount(d_counters[t]))]
    /\ d_pc' = [d_pc EXCEPT ![c] = "has_id"]
    /\ UNCHANGED <<d_table, d_issued, notIds>>

\* spawn_raw of caller c from guard.insert(instance_id, entry) to Ok(..)
InsertEntry(c) ==
    /\ d_pc[c] = "has_id"
    /\ d_table' = d_table \cup {d_id[c]}
    /\ d_issued' = Append(d_issued, d_id[c])
    /\ d_pc' = [d_pc EXCEPT ![c] = "idle"]
    /\ d_id' = [d_id EXCEPT ![c] = <<>>]
    /\ UNCHANGED <<d_counters, notIds>>

\* remove(id), kill_and_remove(id), remove_if_exited(id): guard.remove(id)
RemoveKey(id) ==
    /\ id \in d_table
    /\ d_table' = d_table \ {id}
    /\ UNCHANGED <<d_counters, d_pc, d_id, d_issued, notIds>>

(***************************************************************************)
(* append_output: one stream in one call and in several                    *)
(***************************************************************************)
\* What the PTY delivers: titles and shell-state messages between output,
\* a sequence that starts inside another, and one that does not end.
Streams ==
    { Osc("2", <<"h", "i">>) \o Osc("0", ExitedMsg(1)) \o <<"x">>,
      <<"x">> \o Osc("0", ExitedMsg(0)) \o Osc("0", RunningMsg(JobPid))
           \o Osc("2", <<"y", "o">>),
      Osc("2", <<"h", "i">>) \o Osc("2", <<"y", "o">>) \o <<"x", "y">>,
      Osc("0", RunningMsg(JobPid)) \o Osc("2", <<"h", "i">>)
           \o Osc("0", ExitedMsg(1)),
      <<ESC, "]", ESC, "]", "2", ";", "h", "i", BEL>>,
      <<"x", ESC, "]", "2", ";", "h">> }

\* InstanceEntry after spawn_raw
FreshEntry ==
    [info |-> [present |-> TRUE, status |-> Running, ended_at |-> NoNum,
               child_pid |-> ChildPid, title |-> NoTitle],
     buffer |-> <<>>, parser |-> NewParser]

\* An entry whose parser starts every call between sequences.
FreshParser(par) == NewParser

\* entry.osc_parser: the parser a call leaves is the one the next call finds
KeptParser(par) == par

\* append_output(id, data) on the entry e at time now
AppendedEntry(e, data, now) ==
    LET p == CollectTitles(e.parser, data)
    IN [info |-> AppendedInfo(e.info, e.parser, data, now),
        buffer |-> RingPush(e.buffer, BufferCap, data),
        parser |-> KeptParser([state |-> p.state, buf |-> p.buf])]

SplitInit ==
    /\ p_stream = <<>>
    /\ p_whole = FreshEntry
    /\ p_parts = FreshEntry
    /\ p_fed = 0
    /\ p_once = FALSE
    /\ p_cutin = FALSE
    /\ p_clock = 1

\* The child writes a stream to the PTY; both entries are given the same.
ChildWrites(stream) ==
    /\ p_stream = <<>>
    /\ p_stream' = stream
    /\ UNCHANGED <<p_whole, p_parts, p_fed, p_once, p_cutin, p_clock, notSplit>>

\* append_output with the whole stream
AppendWhole ==
    /\ p_stream # <<>>
    /\ ~p_once
    /\ p_once' = TRUE
    /\ p_whole' = AppendedEntry(p_whole, p_stream, p_clock)
    /\ UNCHANGED <<p_stream, p_parts, p_fed, p_cutin, p_clock, notSplit>>

\* append_output with the next n bytes of the stream
AppendPart(n) ==
    /\ p_stream # <<>>
    /\ p_fed + n <= Len(p_stream)
    /\ p_parts' = AppendedEntry(p_parts, SubSeq(p_stream, p_fed + 1, p_fed + n),
                                p_clock)
    /\ p_fed' = p_fed + n
    /\ p_cutin' = (p_cutin \/ (p_parts'.parser.state # "Idle"
                                 /\ p_fed + n < Len(p_stream)))
    /\ UNCHANGED <<p_stream, p_whole, p_once, p_clock, notSplit>>

\* Time passes.
SplitTick ==
    /\ p_clock < MaxTime
    /\ p_clock' = p_clock + 1
    /\ UNCHANGED <<p_stream, p_whole, p_parts, p_fed, p_once, p_cutin, notSplit>>

(***************************************************************************)
(* The TUI App: running tasks, the active run and the list on the screen   *)
(***************************************************************************)
MaxRuns == 3        \* runs started in one behaviour

NoRun == 0          \* active_run_id = None (ids start at 1)
NoSel == -1         \* list_state.selected() = None

\* app.tasks: the category of each configured task; Rust indexes them from 0.
AppTasks == <<"dev", "ops", "dev">>
TaskIndexes == 0..(Len(AppTasks) - 1)

Header(name) ==
    [kind |-> "Header", name |-> name, index |-> NoSel, run_id |-> NoRun, ordinal |-> 0]
TaskItem(index) ==
    [kind |-> "Task", name |-> "", index |-> index, run_id |-> NoRun, ordinal |-> 0]
RunningItem(run_id, ordinal) ==
    [kind |-> "Running", name |-> "", index |-> NoSel, run_id |-> run_id,
     ordinal |-> ordinal]

\* build_display_items, first loop: the categories in order of appearance
RECURSIVE CategoryOrder(_, _)
CategoryOrder(i, order) ==
    IF i > Len(AppTasks) THEN order
    ELSE CategoryOrder(i + 1,
             IF \E k \in 1..Len(order) : order[k] = AppTasks[i] THEN order
             ELSE Append(order, AppTasks[i]))

\* runs.sort_by_key(|run| (run.started_at, run.id)): the ids in that order
RunBefore(running, a, b) ==
    \/ running[a].started_at < running[b].started_at
    \/ running[a].started_at = running[b].started_at /\ a < b

RECURSIVE SortedRuns(_, _)
SortedRuns(running, ids) ==
    IF ids = {} THEN <<>>
    ELSE LET first == CHOOSE a \in ids : \A b \in ids \ {a} : RunBefore(running, a, b)
         IN <<first>> \o SortedRuns(running, ids \ {first})

\* the items of one task: the task, then its runs numbered from 1
TaskRows(running, index) ==
    LET runs == SortedRuns(running,
                    {r \in DOMAIN running : running[r].task_index = index})
    IN <<TaskItem(index)>> \o [k \in 1..Len(runs) |-> RunningItem(runs[k], k)]

RECURSIVE CategoryRows(_, _, _)
CategoryRows(running, name, i) ==
    IF i > Len(AppTasks) THEN <<>>
    ELSE (IF AppTasks[i] = name THEN TaskRows(running, i - 1) ELSE <<>>)
         \o CategoryRows(running, name, i + 1)

RECURSIVE RowsFrom(_, _, _)
RowsFrom(running, order, k) ==
    IF k > Len(order) THEN <<>>
    ELSE <<Header(order[k])>> \o CategoryRows(running, order[k], 1)
         \o RowsFrom(running, order, k + 1)

\* build_display_items(tasks, running_tasks)
BuildDisplayItems(running) == RowsFrom(running, CategoryOrder(1, <<>>), 1)

\* position of the first item that satisfies Test, as a Rust index
FirstIndex(items, Test(_)) ==
    IF \E k \in 1..Len(items) : Test(items[k])
    THEN (CHOOSE k \in 1..Len(items) :
              Test(items[k]) /\ \A j \in 1..(k - 1) : ~Test(items[j])) - 1
    ELSE NoSel

Selectable(item) == item.kind # "Header"

\* first_selectable_index(items)
FirstSelectableIndex(items) == FirstIndex(items, Selectable)

\* selected_item(app): the task or run under the cursor, a Header item for none
SelectedItem(items, selected) ==
    IF selected # NoSel /\ selected < Len(items) /\ Selectable(items[selected + 1])
    THEN items[selected + 1]
    ELSE Header("")

\* find_selected_index(items, selected)
FindSelectedIndex(items, sel) ==
    LET Same(item) == /\ item.kind = sel.kind
                      /\ item.index = sel.index
                      /\ item.run_id = sel.run_id
    IN FirstIndex(items, Same)

\* rebuild_display_items: the selection after the list was built anew
Reselected(items, selected, newItems) ==
    LET sel == SelectedItem(items, selected)
        found == IF sel.kind = "Header" THEN NoSel ELSE FindSelectedIndex(newItems, sel)
    IN IF found # NoSel THEN found ELSE FirstSelectableIndex(newItems)

\* App::new
AppInit ==
    /\ u_running = <<>>
    /\ u_active = NoRun
    /\ u_next = 1
    /\ u_items = BuildDisplayItems(<<>>)
    /\ u_selected = FirstSelectableIndex(BuildDisplayItems(<<>>))
    /\ u_view = "Selection"
    /\ u_alive = TRUE
    /\ u_given = <<>>
    /\ u_clock = 1

\* An allocator that hands out the same id again.
SameRunId(n) == n

\* allocate_run_id: next_run_id after the call
NextRunId(n) == n + 1

\* The body start_task and start_task_with_inputs share.  outcome says how
\* far it gets: PtySession::new fails, session.run fails, or neither.
Started(index, outcome) ==
    /\ u_alive
    /\ u_next <= MaxRuns
    /\ IF outcome = "new_fails"
       THEN /\ u_alive' = FALSE
            /\ UNCHANGED <<u_running, u_active, u_next, u_items, u_selected,
                           u_view, u_given>>
       ELSE /\ u_next' = NextRunId(u_next)
            /\ u_given' = Append(u_given, u_next)
            /\ IF outcome = "run_fails"
               THEN /\ u_alive' = FALSE
                    /\ UNCHANGED <<u_running, u_active, u_items, u_selected, u_view>>
               ELSE /\ u_running' =
                          [r \in DOMAIN u_running \cup {u_next} |->
                              IF r = u_next
                              THEN [task_index |-> index, started_at |-> u_clock]
                              ELSE u_running[r]]
                    /\ u_active' = u_next
                    /\ u_view' = "Terminal"
                    /\ u_items' = BuildDisplayItems(u_running')
                    /\ u_selected' = Reselected(u_items, u_selected, u_items')
                    /\ u_alive' = TRUE
    /\ UNCHANGED <<u_clock, notApp>>

StartOutcomes == {"ok", "new_fails", "run_fails"}

\* start_task(index)
StartTask(index, outcome) == Started(index, outcome)

\* start_task_with_inputs(index, values): values only shape the command
StartTaskWithInputs(index, outcome) == Started(index, outcome)

\* activate_run(run_id)
ActivateRun(run_id) ==
    /\ u_alive
    /\ IF run_id \in DOMAIN u_running
       THEN u_active' = run_id /\ u_view' = "Terminal"
       ELSE UNCHANGED <<u_active, u_view>>
    /\ UNCHANGED <<u_running, u_next, u_items, u_selected, u_alive, u_given,
                   u_clock, notApp>>

\* kill_active_task; killed: session.kill() returned Ok
KillActiveTask(killed) ==
    /\ u_alive
    /\ u_active' = NoRun
    /\ IF u_active = NoRun
       THEN /\ u_view' = "Selection"
            /\ UNCHANGED <<u_running, u_items, u_selected, u_alive>>
       ELSE /\ u_running' = Without(u_running, {u_active})
            /\ IF u_active \in DOMAIN u_running /\ ~killed
               THEN /\ u_alive' = FALSE
                    /\ UNCHANGED <<u_items, u_selected, u_view>>
               ELSE /\ u_items' = BuildDisplayItems(u_running')
                    /\ u_selected' = Reselected(u_items, u_selected, u_items')
                    /\ u_view' = "Selection"
                    /\ u_alive' = TRUE
    /\ UNCHANGED <<u_next, u_given, u_clock, notApp>>

\* kill_all_tasks
KillAllTasks ==
    /\ u_alive
    /\ u_running' = <<>>
    /\ u_active' = NoRun
    /\ u_items' = BuildDisplayItems(<<>>)
    /\ u_selected' = Reselected(u_items, u_selected, u_items')
    /\ UNCHANGED <<u_next, u_view, u_alive, u_given, u_clock, notApp>>

\* next() and previous(): the cursor moves to the nearest item in the given
\* direction that is not a header.
Moved(step) ==
    LET n == Len(u_items)
        Hop(i, k) == (i + k * step + k * n) % n
    IN IF u_selected = NoSel THEN FirstSelectableIndex(u_items)
       ELSE IF \E k \in 1..n : Selectable(u_items[Hop(u_selected, k) + 1])
       THEN Hop(u_selected,
                CHOOSE k \in 1..n :
                    /\ Selectable(u_items[Hop(u_selected, k) + 1])
                    /\ \A j \in 1..(k - 1) : ~Selectable(u_items[Hop(u_selected, j) + 1]))
       ELSE u_selected

MoveCursor(step) ==
    /\ u_alive
    /\ u_selected' = Moved(step)
    /\ u_selected' # u_selected
    /\ UNCHANGED <<u_running, u_active, u_next, u_items, u_view, u_alive,
                   u_given, u_clock, notApp>>

\* Time passes.
AppTick ==
    /\ u_alive
    /\ u_clock < MaxTime
    /\ u_clock' = u_clock + 1
    /\ UNCHANGED <<u_running, u_active, u_next, u_items, u_selected, u_view,
                   u_alive, u_given, notApp>>

\* The groups a specification does not exercise stay as constructed.
RingIdle == cap = 0 /\ buf = <<>> /\ pushed = <<>>

Rest        == TableInit /\ AttachInit /\ StoreInit /\ SessInit /\ InfoInit
               /\ AnsiInit /\ InputInit /\ SgrInit /\ OscInit /\ LifeInit /\ IdsInit /\ SplitInit /\ AppInit
InitRing    == RingInit /\ Rest
InitTable   == RingIdle /\ Rest
InitAttach  == RingIdle /\ Rest
InitStore   == RingIdle /\ Rest
InitSession == RingIdle /\ Rest
InitInfo    == RingIdle /\ Rest
InitAnsi    == RingIdle /\ Rest
InitInput   == RingIdle /\ Rest
InitSgr     == RingIdle /\ Rest
InitOsc     == RingIdle /\ Rest
InitLife    == RingIdle /\ Rest
InitIds     == RingIdle /\ Rest
InitSplit   == RingIdle /\ Rest
InitApp     == RingIdle /\ Rest

(***************************************************************************)
(* Specifications                                                          *)
(***************************************************************************)
RingNext == \E data \in Chunks : Push(data)

SpecRing == InitRing /\ [][RingNext]_vars

TableNext ==
    \/ \E c \in Callers, t \in Tasks : SpawnRaw(c, t)
    \/ \E c \in Callers, t \in Tasks, at \in FailPoints : SpawnRawFails(c, t, at)
    \/ \E t \in Tasks : Spawn(t)
    \/ \E c \in Callers, id \in InstanceIds : TakeMaster(c, id)
    \/ \E c \in Callers, p \in InstanceIds : ReturnMaster(c, p)
    \/ \E id \in InstanceIds : Remove(id)
    \/ \E id \in InstanceIds : KillAndRemove(id)

SpecTable == InitTable /\ [][TableNext]_vars

AttachNext ==
    \/ ReaderRead
    \/ ReaderLog
    \/ ReaderSend
    \/ \E c \in Conns : ClientReadTail(c)
    \/ \E c \in Conns : ClientConnect(c)
    \/ \E c \in Conns : HostAccept(c)
    \/ \E c \in Conns : HostForward(c)
    \/ \E c \in Conns : ClientDetach(c)

SpecAttach == InitAttach /\ [][AttachNext]_vars

StoreNext ==
    \/ Tick
    \/ CreateSession
    \/ CreateSessionDir
    \/ \E which \in {"active", "history"} : ListSessions(which)
    \/ \E id \in SessionIds : WriteSession(id)
    \/ \E id \in SessionIds : InterruptedWrite(id)
    \/ \E id \in SessionIds, n \in 0..MaxKeep : MoveToHistory(id, n)

SpecStore == InitStore /\ [][StoreNext]_vars

SessionNext ==
    \/ LauncherCreate
    \/ LauncherSpawnHost
    \/ LauncherLoad
    \/ LauncherWrite
    \/ LauncherSeesSocket
    \/ LauncherTimeout
    \/ LauncherAttach
    \/ HostLoad
    \/ HostBind
    \/ HostWriteRunning
    \/ HostSpawnChild
    \/ HostSpawnFails
    \/ HostWriteChildPid
    \/ HostAcceptFails
    \/ \E outcome \in {"ok", "err"} : WatcherWait(outcome)
    \/ HostSeesExit
    \/ HostWriteExited
    \/ HostRemoveSocket
    \/ ChildLoad
    \/ ChildWrite
    \/ ChildExit
    \/ \E k \in Killers : KillLoad(k)
    \/ \E k \in Killers : KillTerminate(k)
    \/ \E k \in Killers, reaped \in BOOLEAN : KillTerminateGone(k, reaped)
    \/ \E p \in Movers : MoveCheckFrom(p)
    \/ \E p \in Movers : MoveCheckTo(p)
    \/ \E p \in Movers : MoveRemoveTo(p)
    \/ \E p \in Movers : MoveRename(p)
    \/ \E p \in Movers, victim \in BOOLEAN : MovePrune(p, victim)

SpecSession == InitSession /\ [][SessionNext]_vars

InfoNext ==
    \/ InfoSpawn
    \/ \E outcome \in {Exited(n) : n \in 0..MaxCode} \cup {ErrorStatus} :
           ExitWatcher(outcome)
    \/ \E data \in OutputChunks : AppendOutput(data)
    \/ RemoveIfExited
    \/ InfoTick

SpecInfo == InitInfo /\ [][InfoNext]_vars

AnsiNext == \E piece \in Pieces : AnsiAppend(piece)

SpecAnsi == InitAnsi /\ [][AnsiNext]_vars

\* Text that also holds escape sequences other than SGR: erase display,
\* erase line, and a sequence whose final 'm' has not arrived.
CsiPieces ==
    {[kind |-> "csi", body |-> b] :
        b \in { <<ESC, "[", "2", "J">>, <<ESC, "[", "K">>, <<ESC, "[", "3", "1">> }}

CsiNext == \E piece \in Pieces \cup CsiPieces : AnsiAppend(piece)

SpecCsi == InitAnsi /\ [][CsiNext]_vars

\* One instance fed whole title sequences.
TitlesNext ==
    \/ InfoSpawn
    \/ \E outcome \in {Exited(n) : n \in 0..MaxCode} \cup {ErrorStatus} :
          ExitWatcher(outcome)
    \/ \E data \in TitleChunks : AppendOutput(data)
    \/ InfoTick

SpecTitles == InitInfo /\ [][TitlesNext]_vars

OscNext == \E data \in OscChunks : OscFeed(data)

SpecOsc == InitOsc /\ [][OscNext]_vars

LifeNext ==
    \/ LifeSpawnRaw
    \/ \E id \in LifeIds, w \in WaitResults : ChildEnds(id, w)
    \/ \E id \in LifeIds : WatcherWritesBack(id)
    \/ \E id \in LifeIds, data \in LifeChunks : LifeAppendOutput(id, data)
    \/ \E id \in LifeIds, ok \in BOOLEAN : LifeKill(id, ok)
    \/ \E id \in LifeIds : LifeKillAndRemove(id)
    \/ \E id \in LifeIds : LifeRemove(id)
    \/ \E id \in LifeIds : LifeRemoveIfExited(id)
    \/ \E id \in LifeIds : LifeTakeMaster(id)
    \/ \E id \in LifeIds : LifeReturnMaster(id)
    \/ LifeTerminateAll
    \/ LifeTick

IdsNext ==
    \/ \E c \in Callers, t \in IdTasks : NextInstanceId(c, t)
    \/ \E c \in Callers : InsertEntry(c)
    \/ \E id \in d_table : RemoveKey(id)

SpecIds == InitIds /\ [][IdsNext]_vars

SplitNext ==
    \/ \E stream \in Streams : ChildWrites(stream)
    \/ AppendWhole
    \/ \E n \in 1..Len(p_stream) : AppendPart(n)
    \/ SplitTick

SpecSplit == InitSplit /\ [][SplitNext]_vars

AppNext ==
    \/ \E index \in TaskIndexes, outcome \in StartOutcomes : StartTask(index, outcome)
    \/ \E index \in TaskIndexes, outcome \in StartOutcomes :
           StartTaskWithInputs(index, outcome)
    \/ \E run_id \in 1..MaxRuns : ActivateRun(run_id)
    \/ \E killed \in BOOLEAN : KillActiveTask(killed)
    \/ KillAllTasks
    \/ \E step \in {1, -1} : MoveCursor(step)
    \/ AppTick

SpecApp == InitApp /\ [][AppNext]_vars

SpecLife == InitLife /\ [][LifeNext]_vars

\* The exit watcher runs on its own blocking thread and needs nothing but
\* the table lock, which every operation gives back.
SpecLifeFair ==
    InitLife /\ [][LifeNext]_vars
        /\ \A id \in LifeIds : WF_vars(WatcherWritesBack(id))

InputNext ==
    \/ \E c \in Conns, shape \in Shapes : ClientRead(c, shape)
    \/ \E c \in Conns : ClientRelay(c)
    \/ \E c \in Conns : ClientStdinEof(c)
    \/ \E c \in Conns : ClientSeesClose(c)
    \/ \E c \in Conns, n \in 1..MaxRead : HandlerRead(c, n)
    \/ \E c \in Conns : HandlerSend(c)
    \/ \E c \in Conns : HandlerEof(c)
    \/ WriterThread
    \/ InputHostStops

SpecInput == InitInput /\ [][InputNext]_vars

SgrNext == \E codes \in SgrLists : ApplySgrTo(codes)

SpecSgr == InitSgr /\ [][SgrNext]_vars

(***************************************************************************)
(* C1: for every capacity and every sequence of pushes, snapshot() is at   *)
(* most cap bytes long and is the last min(cap, total bytes pushed) bytes  *)
(* of the concatenation of all pushed chunks, oldest byte first.           *)
(***************************************************************************)
C1_SnapshotIsSuffix ==
    /\ Len(Snapshot) <= cap
    /\ Snapshot = Suffix(pushed, Min(cap, Len(pushed)))

\* Bytes were evicted: more was pushed than a non-trivial buffer holds.
C1_Witness ==
    /\ cap >= 2
    /\ Len(pushed) >= cap + 2
    /\ Len(Snapshot) = cap
    /\ Snapshot[1] # pushed[1]

(***************************************************************************)
(* C3: take_master on a stored pair returns it; a second take_master with  *)
(* no return_master in between returns None; after return_master the next  *)
(* take_master returns a pair again; take_master on an unknown id returns  *)
(* None.  Stated on the last two hand-off events of every id.              *)
(***************************************************************************)
Takes == {"take_some", "take_none"}

C3_TakeReturnTake ==
    \A id \in InstanceIds :
        LET a == mlog[id][1]
            b == mlog[id][2]
        IN /\ (a = "return_stored" /\ b \in Takes) => b = "take_some"
           /\ (a \in Takes /\ b \in Takes) => b = "take_none"
           /\ (a \in {"none", "removed", "return_dropped"} /\ b \in Takes)
                  => b = "take_none"

\* A pair was taken, and the take that followed found nothing.
C3_Witness ==
    \E id \in InstanceIds :
        /\ mlog[id] = <<"take_some", "take_none">>
        /\ id \in DOMAIN instances
        /\ \E c \in Callers : id \in held[c]

(***************************************************************************)
(* C4: under every interleaving of spawn_raw, spawn, take_master,          *)
(* return_master, remove and kill_and_remove the pair of an instance has   *)
(* at most one holder: never both in the table and with a caller, never    *)
(* with two callers.                                                       *)
(***************************************************************************)
Holders(p) ==
    {<<"table", id>> : id \in {i \in DOMAIN instances : instances[i].master = p}}
        \cup {<<"table_writer", id>> : id \in {i \in DOMAIN instances :
                  instances[i].writer = p /\ instances[i].master # p}}
        \cup {<<"caller", c>> : c \in {d \in Callers : p \in held[d]}}

C4_SingleHolder == \A p \in InstanceIds : Cardinality(Holders(p)) <= 1

\* One pair is checked out while another caller has just returned its own.
C4_Witness ==
    \E p, q \in InstanceIds :
        /\ p # q
        /\ mlog[p][2] = "take_some" /\ \E c \in Callers : p \in held[c]
        /\ mlog[q] = <<"take_some", "return_stored">> /\ Stored(instances[q])

(***************************************************************************)
(* C2: a viewer that reattaches sees the log tail followed by the live     *)
(* chunks, every chunk from the start of the tail onward exactly once:     *)
(* what it has been shown is always a gapless, duplicate-free run of       *)
(* chunks, and once the host has nothing more to hand it, that run ends    *)
(* with the last chunk the child produced.                                 *)
(***************************************************************************)
View(c) == tail[c] \o live[c]

Contiguous(s) == \A i \in 1..(Len(s) - 1) : s[i + 1] = s[i] + 1

CaughtUp(c) ==
    /\ rd_pc = "read"
    /\ hs[c] = "serving"
    /\ rx_next[c] = Len(tx_vals)

C2_SeamlessReattach ==
    \A c \in Conns :
        (attaches[c] >= 2 /\ cl_pc[c] = "attached") =>
            /\ Contiguous(View(c))
            /\ CaughtUp(c) => View(c) = Suffix(logfile, Len(View(c)))

(***************************************************************************)
(* C8: a connection receives every chunk the host reads after the          *)
(* connection subscribed, in order, however slowly it drains: what it got  *)
(* over the socket is a prefix of what was broadcast since it subscribed,  *)
(* and the rest is still there for it to receive.                          *)
(***************************************************************************)
Owed(c) == SubSeq(tx_vals, sub_pos[c] + 1, Len(tx_vals))

C8_EveryChunkDelivered ==
    \A c \in Conns :
        (cl_pc[c] = "attached" /\ hs[c] \in {"serving", "lagged"}) =>
            /\ hs[c] = "serving"
            /\ ~Lagging(c)
            /\ live[c] = SubSeq(Owed(c), 1, Len(live[c]))

(***************************************************************************)
(* C7: after move_to_history(K, N) has left count entries under history    *)
(* before pruning: when count > N exactly count - N entries are deleted,   *)
(* those with the smallest started_at, and exactly N remain; when          *)
(* count <= N nothing is deleted; so the number of session directories     *)
(* under history is at most N after the call.                              *)
(***************************************************************************)
C7_PrunedToCap ==
    st_last.op = "move" =>
        LET n     == st_last.n
            count == st_last.count
            del   == st_last.deleted
            left  == DOMAIN st_history
        IN /\ count > n =>
                  /\ Cardinality(del) = count - n
                  /\ Cardinality(left) = n
                  /\ \A x \in del, y \in left :
                         st_last.before[x].started_at <= st_history[y].started_at
           /\ count <= n => del = {}
           /\ Cardinality(left) <= n

\* The same, counting only the directories whose meta.json parses: this is
\* what prune_history establishes.
C7_ParseablePrunedToCap ==
    st_last.op = "move" =>
        LET n     == st_last.n
            count == Cardinality(ListedIds(st_last.before))
            del   == st_last.deleted
            left  == ListedIds(st_history)
        IN /\ count > n =>
                  /\ Cardinality(del) = count - n
                  /\ Cardinality(left) = n
                  /\ \A x \in del, y \in left :
                         st_last.before[x].started_at <= st_history[y].started_at
           /\ count <= n => del = {}
           /\ Cardinality(left) <= n

(***************************************************************************)
(* C5: the status stored in a session's meta.json never regresses: every   *)
(* step of the launcher, the host and the TUI child leaves it where it is  *)
(* or moves it forward along Pending -> Running -> Exited.                 *)
(***************************************************************************)
Rank(st) == CASE st = "Pending" -> 0 [] st = "Running" -> 1 [] st = "Exited" -> 2

C5_StatusNeverRegresses ==
    [][(act.exists /\ act'.exists) =>
           Rank(act'.meta.status) >= Rank(act.meta.status)]_vars

(***************************************************************************)
(* C6: from create_session until prune_history deletes the session, its    *)
(* metadata file exists exactly once: under the active root or under the   *)
(* history root, never both, never neither.                                *)
(***************************************************************************)
MetaFiles == {d \in {"active", "history"} :
                 IF d = "active" THEN act.exists ELSE hist.exists}

C6_ExactlyOneMetaFile ==
    (pc["launcher"] # "start" /\ ~pruned) => Cardinality(MetaFiles) = 1

(***************************************************************************)
(* C9: a host that has stopped never leaves its session under active with  *)
(* status Running; and a host that stopped after its child terminated has  *)
(* left the session out of active, with Exited and ended_at recorded in    *)
(* the metadata under history.                                             *)
(***************************************************************************)
HostStopped == pc["host"] \in {"done", "error"}

C9_HostFinishesSession ==
    /\ HostStopped => ~(act.exists /\ act.meta.status = "Running")
    /\ (HostStopped /\ pc["child"] = "exited") =>
           /\ ~act.exists
           /\ hist.exists => (hist.meta.status = "Exited" /\ hist.meta.ended_at)

(***************************************************************************)
(* C10: once the host has handled its child's exit (metadata written,      *)
(* directory moved to history, host finished), the session's attach        *)
(* socket file exists nowhere on disk.                                     *)
(***************************************************************************)
SocketFiles == {d \in {"active", "history"} :
                   IF d = "active" THEN act.exists /\ act.sock
                   ELSE hist.exists /\ hist.sock}

C10_SocketGoneAfterExit ==
    (pc["host"] = "done" /\ h_moved) => SocketFiles = {}

(***************************************************************************)
(* C11: an instance's status changes only from Running to Exited(code) or  *)
(* Error, or back to Running by a state=running shell-state message; no    *)
(* step of the exit watcher or of append_output turns one terminal status  *)
(* into a different terminal status.                                       *)
(***************************************************************************)
RunningChunk == Osc("0", RunningMsg(JobPid))

ByRunningMessage(last) == last.op = "append_output" /\ last.data = RunningChunk

C11_StatusTransitions ==
    [][(i_info.present /\ i_info'.present /\ i_info'.status # i_info.status) =>
           \/ /\ i_info.status = Running
              /\ i_info'.status.kind \in {"Exited", "Error"}
           \/ /\ i_info'.status = Running
              /\ ByRunningMessage(i_last')]_vars

(***************************************************************************)
(* C12: an instance's end timestamp is set once: after ended_at is         *)
(* Some(t) no operation makes it a different Some(t'), and only a          *)
(* state=running shell-state message resets it to None.                    *)
(***************************************************************************)
C12_EndedAtSetOnce ==
    [][(i_info.present /\ i_info'.present /\ i_info.ended_at # NoNum
           /\ i_info'.ended_at # i_info.ended_at) =>
           /\ i_info'.ended_at = NoNum
           /\ ByRunningMessage(i_last')]_vars

(***************************************************************************)
(* C13: for a known instance, append_output of                             *)
(* ESC ] 0 ; CMDHUB:state=exited;code=N BEL sets status Exited(N) and a    *)
(* non-empty ended_at and leaves the title unchanged; append_output of     *)
(* ESC ] 2 ; T BEL, T not starting with CMDHUB:, sets the title to T and   *)
(* leaves status, ended_at and child_pid unchanged.                        *)
(***************************************************************************)
ExitedChunks == {Osc("0", ExitedMsg(n)) : n \in 0..MaxCode}

\* The step is append_output(data) on a known instance.
Appends(data) ==
    i_info.present /\ i_last'.op = "append_output" /\ i_last'.data = data

ExitedApplied(n) ==
    /\ i_info'.status = Exited(n)
    /\ i_info'.ended_at # NoNum
    /\ i_info'.title = i_info.title

TitleApplied(t) ==
    /\ i_info'.title = SomeTitle(t)
    /\ i_info'.status = i_info.status
    /\ i_info'.ended_at = i_info.ended_at
    /\ i_info'.child_pid = i_info.child_pid

C14_KillAndRemove ==
    [][\A id \in InstanceIds :
          (t_ret'.op = "kill_and_remove" /\ t_ret'.id = id) =>
              /\ IF id \in DOMAIN instances
                 THEN /\ t_ret'.ret
                      /\ DOMAIN instances' = DOMAIN instances \ {id}
                      /\ kills' = [kills EXCEPT ![id] = @ + 1]
                 ELSE /\ ~t_ret'.ret
                      /\ UNCHANGED <<instances, counters, held, kills>>
              /\ kills'[id] <= 1]_vars

\* A second kill_and_remove of an instance that was killed and removed.
C14_Witness ==
    \E id \in InstanceIds :
        /\ kills[id] = 1
        /\ id \notin DOMAIN instances
        /\ t_ret = Returned("kill_and_remove", id, FALSE)

(***************************************************************************)
(* C15: parse_ansi_text on ESC[1;31m ERR ESC[0m " ok" yields exactly two   *)
(* runs on one line, "ERR" bold with red foreground and " ok" with the     *)
(* default style; in general SGR 0 and an empty parameter list reset the   *)
(* accumulator to the default style, and every run carries the style       *)
(* accumulated by all SGR sequences that precede it.                       *)
(***************************************************************************)
ExampleText ==
    Sgr(<<"1", ";", "3", "1">>) \o <<"E", "R", "R">> \o Sgr(<<"0">>) \o <<" ", "o", "k">>

ExampleRuns ==
    << << Span(<<"E", "R", "R">>,
               [fg |-> <<"Red">>, bg |-> NoColor, add |-> {"BOLD"}, sub |-> {}]),
          Span(<<" ", "o", "k">>, DefaultStyle) >> >>

\* The style in force after a piece, by the claim's rule.
StyleAfter(piece, st) ==
    IF piece.kind # "sgr" THEN st
    ELSE IF piece.body \in {<<>>, <<"0">>} THEN DefaultStyle
    ELSE ApplySgr(piece.body, st)

Styled(t, st) == [k \in 1..Len(t) |-> <<t[k], st>>]

\* Every character of the pieces with the style accumulated before it.
RECURSIVE ExpectedChars(_, _)
ExpectedChars(ps, st) ==
    IF ps = <<>> THEN <<>>
    ELSE (IF Head(ps).kind = "text" THEN Styled(Head(ps).body, st) ELSE <<>>)
         \o ExpectedChars(Tail(ps), StyleAfter(Head(ps), st))

\* Every character of the runs with its run's style, line breaks included.
RECURSIVE SpanChars(_)
SpanChars(spans) ==
    IF spans = <<>> THEN <<>>
    ELSE Styled(Head(spans).content, Head(spans).style) \o SpanChars(Tail(spans))

RECURSIVE LineChars(_)
LineChars(lines) ==
    IF lines = <<>> THEN <<>> ELSE SpanChars(Head(lines)) \o LineChars(Tail(lines))

NotNewline(x) == x[1] # "\n"

C15_RunsCarryStyle ==
    /\ a_input = ExampleText => ParseAnsiText(a_input) = ExampleRuns
    /\ LineChars(ParseAnsiText(a_input))
           = SelectSeq(ExpectedChars(a_pieces, DefaultStyle), NotNewline)

C15_Witness ==
    /\ a_input = ExampleText
    /\ Len(ParseAnsiText(a_input)) = 1
    /\ Len(ParseAnsiText(a_input)[1]) = 2

(***************************************************************************)
(* C16: the attach client never forwards the detach byte.  While the host  *)
(* is running, the relay step for a stdin chunk writes to the socket       *)
(* exactly the bytes before the chunk's first 0x02 (all of them when there *)
(* is none); when the chunk holds a 0x02 the client stops relaying and     *)
(* shuts down its write side, otherwise it goes on; the step leaves the    *)
(* host, the queue, the PTY and the other connections as they were, and    *)
(* when the handler of the detached connection ends, the host and the      *)
(* other handlers go on.  No 0x02 is ever in a socket, a handler's chunk,  *)
(* the queue or the PTY.                                                   *)
(***************************************************************************)
FirstDetach(chunk) ==
    IF \E i \in 1..Len(chunk) : chunk[i].det
    THEN CHOOSE i \in 1..Len(chunk) :
            chunk[i].det /\ \A j \in 1..(i - 1) : ~chunk[j].det
    ELSE Len(chunk) + 1

NoDetach(bytes) == \A i \in 1..Len(bytes) : ~bytes[i].det

OthersUntouched(c) ==
    /\ in_host' = in_host /\ in_queue' = in_queue /\ in_pty' = in_pty
    /\ \A d \in Conns \ {c} :
          /\ in_pc'[d] = in_pc[d] /\ in_shut'[d] = in_shut[d]
          /\ in_sock'[d] = in_sock[d] /\ in_hold'[d] = in_hold[d]
          /\ in_handler'[d] = in_handler[d]

RelayStep(c) == in_pc[c] = "relay" /\ in_pc'[c] # "relay"

C16_DetachNeverForwarded ==
    /\ [][\A c \in Conns :
            /\ (RelayStep(c) /\ in_host = "running") =>
                  LET chunk == in_buf[c]
                      cut   == FirstDetach(chunk)
                      sent  == SubSeq(chunk, 1, cut - 1)
                  IN /\ in_sock'[c] = in_sock[c] \o sent
                     /\ in_written'[c] = in_written[c] \o sent
                     /\ IF cut <= Len(chunk)
                        THEN in_pc'[c] = "detached" /\ in_shut'[c]
                        ELSE in_pc'[c] = "select" /\ ~in_shut'[c]
                     /\ in_handler'[c] = in_handler[c]
                     /\ OthersUntouched(c)
            /\ (in_handler[c] # "ended" /\ in_handler'[c] = "ended"
                   /\ in_pc[c] = "detached" /\ in_host' = "running") =>
                  OthersUntouched(c)]_vars
    /\ [](/\ \A c \in Conns : NoDetach(in_sock[c]) /\ NoDetach(in_hold[c])
          /\ \A i \in 1..Len(in_queue) : NoDetach(in_queue[i])
          /\ NoDetach(in_pty))

\* One client typed bytes, a 0x02 and one more byte in the same chunk and is
\* detached, its handler has ended; the host serves the other connection.
C16_Witness ==
    /\ in_host = "running"
    /\ \E c \in Conns :
          /\ in_pc[c] = "detached" /\ in_shut[c] /\ in_handler[c] = "ended"
          /\ in_written[c] # <<>>
          /\ in_typed[c] > Len(in_written[c])
          /\ \E d \in Conns \ {c} :
                /\ in_pc[d] = "select" /\ in_handler[d] = "read"
                /\ in_written[d] # <<>>

(***************************************************************************)
(* C18: the bytes of one connection reach the PTY in the order the         *)
(* connection sent them, whatever the other connections do: the PTY's      *)
(* bytes of a connection are a prefix of what it wrote to its socket, and  *)
(* while the host runs the rest is, in order, in the queue, in the         *)
(* handler's hand and in the socket.  The PTY's bytes are the dequeued     *)
(* chunks one after the other, and each of these holds the bytes of one    *)
(* connection only.                                                        *)
(***************************************************************************)
RECURSIVE Flat(_)
Flat(chunks) ==
    IF chunks = <<>> THEN <<>> ELSE Head(chunks) \o Flat(Tail(chunks))

BytesOf(c, bytes) == SelectSeq(bytes, LAMBDA b : b.conn = c)

StartsSeq(whole, part) ==
    Len(part) <= Len(whole) /\ SubSeq(whole, 1, Len(part)) = part

C18_PerConnectionOrder ==
    /\ \A c \in Conns :
          /\ StartsSeq(in_written[c], BytesOf(c, in_pty))
          /\ in_host = "running" =>
                in_written[c] = BytesOf(c, in_pty) \o BytesOf(c, Flat(in_queue))
                                  \o in_hold[c] \o in_sock[c]
    /\ in_pty = Flat(in_chunks)
    /\ \A i \in 1..Len(in_chunks) :
          \A j, k \in 1..Len(in_chunks[i]) :
              in_chunks[i][j].conn = in_chunks[i][k].conn

\* The PTY holds bytes of one connection, then of the other, then of the
\* first again, and one connection has two chunks in it.
C18_Witness ==
    /\ \E i, j, k \in 1..Len(in_pty) :
          /\ i < j /\ j < k
          /\ in_pty[i].conn = in_pty[k].conn
          /\ in_pty[i].conn # in_pty[j].conn
    /\ \E c \in Conns :
          Cardinality({i \in 1..Len(in_chunks) : in_chunks[i][1].conn = c}) >= 2

(***************************************************************************)
(* C19: the metadata under active shows Running only when the socket is    *)
(* bound and the host has opened the PTY and spawned the child; a host     *)
(* that ended in an error without having spawned a child leaves no         *)
(* session recorded as Running.                                            *)
(***************************************************************************)
RecordedRunning == act.exists /\ act.meta.status = "Running"

ChildSpawned == pc["child"] # "none"

C19_RunningOnlyOncePtyOpen ==
    /\ RecordedRunning => (act.sock /\ ChildSpawned)
    /\ (pc["host"] = "error" /\ ~ChildSpawned) => ~RecordedRunning

(***************************************************************************)
(* C20: remove_if_exited deletes the entry and returns true when the       *)
(* instance's status is terminal, Exited(_) or Error(_); it returns false  *)
(* and leaves the table as it was when the instance is Running or is not   *)
(* in the table.                                                           *)
(***************************************************************************)
Terminal(st) == st.kind \in {"Exited", "Error"}

C20_RemovesTerminal ==
    [][i_last'.op = "remove_if_exited" =>
          IF i_info.present /\ Terminal(i_info.status)
          THEN ~i_info'.present /\ i_last'.ret
          ELSE /\ i_info' = i_info /\ i_buffer' = i_buffer
               /\ ~i_last'.ret]_vars

(***************************************************************************)
(* C17: the chunks read from the PTY are numbered 1, 2, ... in read order. *)
(* The log and the sequence handed to the broadcast channel are each       *)
(* exactly 1..k for the chunks that have reached them; chunk k is in the   *)
(* log before it is handed to the channel, and it is handed to the channel *)
(* before chunk k+1 is in the log.  What the channel keeps for its         *)
(* receivers is in the same order.                                         *)
(***************************************************************************)
RECURSIVE Upto(_)
Upto(n) == IF n <= 0 THEN <<>> ELSE Append(Upto(n - 1), n)

ListInstances == DOMAIN instances

C21_FailedSpawnLeavesNoTrace ==
    [][(t_ret'.op = "spawn_raw" /\ ~t_ret'.ret) =>
          /\ instances' = instances
          /\ ListInstances' = ListInstances
          /\ counters' = counters
          /\ held' = held]_vars

\* A spawn failed after one had succeeded; the table holds the first
\* instance and the counter still stands at one.
C21_Witness ==
    /\ t_ret.op = "spawn_raw" /\ ~t_ret.ret
    /\ \E t \in Tasks :
          /\ counters[t] = 1
          /\ InstanceId(t, 1) \in DOMAIN instances

(***************************************************************************)
(* C24: list_sessions and list_history succeed and return, each once, the  *)
(* sessions of their subtree whose directory holds a meta.json that        *)
(* parses, in ascending order of started_at; a directory whose meta.json   *)
(* is missing or cut short is left out and takes no other session with it. *)
(***************************************************************************)
Subtree(which) == IF which = "active" THEN st_active ELSE st_history

Distance(u, v) == IF u < v THEN v - u ELSE u - v

Nearest(v) ==
    LET near == {0, 255, v} \cap 0..255
    IN CHOOSE u \in near : \A w \in near : Distance(u, v) <= Distance(w, v)

From(codes, n) == SubSeq(codes, n, Len(codes))

Painted(st, k, color) ==
    IF k = 38 THEN [st EXCEPT !.fg = color] ELSE [st EXCEPT !.bg = color]

IndexedAt(codes) ==
    Len(codes) >= 3 /\ codes[1] \in {38, 48} /\ codes[2] = 5

RgbAt(codes) ==
    Len(codes) >= 5 /\ codes[1] \in {38, 48} /\ codes[2] = 2

MsgChunk(m) == ChunkOf(<<MsgTitle(m, FALSE)>>)

RunningApplied(m) ==
    /\ i_info'.status = Running
    /\ i_info'.ended_at = NoNum
    /\ i_info'.child_pid = IF m.pid = "pid" THEN JobPid ELSE i_info.child_pid

ExitedStamped(m) ==
    /\ i_info'.status = Exited(IF m.code = "code" THEN MaxCode ELSE 0)
    /\ i_info'.ended_at = i_clock
    /\ i_info'.child_pid = i_info.child_pid

C27_StateMessages ==
    [][\A m \in StateMsgs :
          Appends(MsgChunk(m)) =>
              /\ m.st = "running" => RunningApplied(m)
              /\ (m.st = "exited" /\ m.code # "x") => ExitedStamped(m)]_vars

\* A state=running message with a pid, applied to an instance that had
\* ended: running again, no end time, the pid of the message.
C27_Witness ==
    /\ i_info.present
    /\ i_last.op = "append_output"
    /\ i_last.data = MsgChunk(Msg("running", "pid", "none"))
    /\ i_info.status = Running
    /\ i_info.ended_at = NoNum
    /\ i_info.child_pid = JobPid
    /\ i_watch = "fired"
    /\ i_clock > 0

(***************************************************************************)
(* C22: append_output with a malformed CMDHUB: payload (no state key, an   *)
(* unrecognized state value, or a pid or code value that is not an         *)
(* unsigned integer) changes nothing of the instance: status, ended_at,    *)
(* child_pid and title are as before, and no error is returned.            *)
(***************************************************************************)
Malformed(m) ==
    m.st \notin {"running", "exited"} \/ m.pid = "x" \/ m.code = "x"

InfoUntouched ==
    /\ i_info'.status = i_info.status
    /\ i_info'.ended_at = i_info.ended_at
    /\ i_info'.child_pid = i_info.child_pid
    /\ i_info'.title = i_info.title

C22_MalformedIgnored ==
    [][\A m \in StateMsgs :
          (Malformed(m) /\ Appends(MsgChunk(m))) =>
              (InfoUntouched /\ i_last'.ret)]_vars

\* The part of C22 about the state key: a message without a state key or
\* with a state other than running and exited changes nothing.
C22_NoStateIgnored ==
    [][\A m \in StateMsgs :
          (m.st \notin {"running", "exited"} /\ Appends(MsgChunk(m))) =>
              (InfoUntouched /\ i_last'.ret)]_vars

(***************************************************************************)
(* C28: within one append_output call every recognized title whose         *)
(* payload starts with CMDHUB: is applied as a state message, in arrival   *)
(* order, and is never stored as the instance title, whatever its state;   *)
(* of the other, generic titles only the last one of the chunk becomes the *)
(* instance title, and a chunk with no generic title leaves the title      *)
(* unchanged.                                                              *)
(***************************************************************************)
\* What the state message m does to an instance at time now.
Effect(m, inf, now) ==
    IF m.st = "running"
    THEN [inf EXCEPT !.status = Running, !.ended_at = NoNum,
                     !.child_pid = IF m.pid = "pid" THEN JobPid ELSE inf.child_pid]
    ELSE IF m.st = "exited"
    THEN [inf EXCEPT !.status = Exited(IF m.code = "code" THEN MaxCode ELSE 0),
                     !.ended_at = now]
    ELSE inf

\* The payload starts with CMDHUB: / does so once the whitespace around it
\* is taken off.
StartsCmdhub(t) == t.kind = "msg" /\ ~t.lead
TrimmedStartsCmdhub(t) == t.kind = "msg"

\* The state messages of ts (those in the set msgs) applied in order.
RECURSIVE MessagesApplied(_, _, _, _)
MessagesApplied(ts, msgs, inf, now) ==
    IF ts = <<>> THEN inf
    ELSE MessagesApplied(Tail(ts), msgs,
                         IF Head(ts) \in msgs THEN Effect(Head(ts).m, inf, now)
                         ELSE inf,
                         now)

\* The last recognized title of ts that is not in msgs, if there is one.
RECURSIVE LastGeneric(_, _, _)
LastGeneric(ts, msgs, old) ==
    IF ts = <<>> THEN old
    ELSE LastGeneric(Tail(ts), msgs,
                     IF Head(ts) \notin msgs /\ Utf8Ok(TitleText(Head(ts)))
                     THEN SomeTitle(TitleText(Head(ts)))
                     ELSE old)

TitlesIn(ts) == {ts[i] : i \in DOMAIN ts}

\* append_output of the titles ts did what C28 says, msgs being the titles
\* taken as state messages.
ChunkApplied(ts, msgs) ==
    i_info' = [MessagesApplied(ts, msgs, i_info, i_clock)
                 EXCEPT !.title = LastGeneric(ts, msgs, i_info.title)]

C28_TitlesOfOneChunk ==
    [][\A ts \in TitleLists :
          Appends(ChunkOf(ts)) =>
              ChunkApplied(ts, {t \in TitlesIn(ts) : StartsCmdhub(t)})]_vars

\* The same with the test the code makes: the payload, trimmed of the
\* whitespace around it, starts with CMDHUB:.
C28_TitlesOfOneChunkTrimmed ==
    [][\A ts \in TitleLists :
          Appends(ChunkOf(ts)) =>
              ChunkApplied(ts, {t \in TitlesIn(ts) : TrimmedStartsCmdhub(t)})]_vars

\* One chunk with the titles hi and yo, on an instance that had ended:
\* the title is yo.
C28_Witness ==
    /\ i_info.present
    /\ i_last.op = "append_output"
    /\ i_last.data = ChunkOf(<<PlainTitle(<<"h", "i">>), PlainTitle(<<"y", "o">>)>>)
    /\ i_info.title = SomeTitle(<<"y", "o">>)
    /\ i_info.status = Exited(MaxCode)

(***************************************************************************)
(* C25: the OscParser recognizes a title only for the byte shape           *)
(* ESC ] ('0'|'2') ; payload BEL; in every state other than Collect a byte *)
(* that is not the expected next byte returns the parser to Idle; so       *)
(* after any garbage prefix a complete well-formed title sequence that     *)
(* follows is still recognized.                                            *)
(***************************************************************************)
\* The bytes that take the parser one state further, and where to.
Expected(state) ==
    CASE state = "Idle" -> {ESC}
      [] state = "Esc" -> {"]"}
      [] state = "Osc" -> {"0", "2"}
      [] state = "OscCode" -> {";"}

Further(state) ==
    CASE state = "Idle" -> "Esc"
      [] state = "Esc" -> "Osc"
      [] state = "Osc" -> "OscCode"
      [] state = "OscCode" -> "Collect"

\* The step is collect_titles(data).
Feeds(data) == o_fed' = o_fed + 1 /\ o_last' = data

\* Outside Collect no byte gives a title, and the expected byte takes the
\* parser one state further.
ShapeFollowed ==
    \A b \in {ESC, "]", "0", "2", ";", BEL, "x", "xFF"} :
        (o_parser.state # "Collect" /\ Feeds(<<b>>)) =>
            /\ o_titles' = <<>>
            /\ b \in Expected(o_parser.state) =>
                   o_parser'.state = Further(o_parser.state)

\* Outside Collect any other byte takes the parser to Idle.
UnexpectedToIdle ==
    \A b \in {ESC, "]", "0", "2", ";", BEL, "x", "xFF"} :
        (o_parser.state # "Collect" /\ Feeds(<<b>>)
             /\ b \notin Expected(o_parser.state)) =>
            o_parser'.state = "Idle"

\* A whole title sequence that arrives outside Collect gives its title.
TitleAfterGarbage ==
    \A c \in {"0", "2"} :
        (o_parser.state # "Collect" /\ Feeds(Osc(c, <<"h", "i">>))) =>
            o_titles' = << <<"h", "i">> >>

C25_Resync == [][ShapeFollowed /\ UnexpectedToIdle /\ TitleAfterGarbage]_vars

\* The parts of C25 one by one.
C25_ShapeFollowed == [][ShapeFollowed]_vars
C25_UnexpectedToIdle == [][UnexpectedToIdle]_vars
C25_TitleAfterGarbage == [][TitleAfterGarbage]_vars

(***************************************************************************)
(* C26: in Collect the accumulated payload never exceeds 2048 bytes: the   *)
(* bytes beyond the cap are dropped, the parser stays in Collect until     *)
(* BEL, and on BEL it emits the first 2048 payload bytes, if they are      *)
(* valid text, and returns to Idle with an empty buffer.                   *)
(***************************************************************************)
\* The first n elements of t, or all of t when it has fewer.
First(n, t) == SubSeq(t, 1, Min(n, Len(t)))

C26_PayloadCapped ==
    [][/\ Len(o_parser'.buf) <= 2048
       /\ \A data \in OscChunks :
             (o_parser.state = "Collect" /\ Feeds(data)) =>
                 IF ~HasBel(data)
                 THEN /\ o_parser'.state = "Collect"
                      /\ o_parser'.buf = First(2048, o_payload \o data)
                      /\ o_titles' = <<>>
                 ELSE data = <<BEL>> =>
                      /\ o_parser' = NewParser
                      /\ o_titles' = IF Utf8Ok(First(2048, o_payload))
                                     THEN <<First(2048, o_payload)>>
                                     ELSE <<>>]_vars

\* A payload of 2049 bytes has arrived and 2048 of them are kept.
C26_Witness ==
    /\ o_parser.state = "Collect"
    /\ Len(o_payload) = 2049
    /\ Len(o_parser.buf) = 2048

\* The title of 2048 bytes that a BEL gives.
C26_TitleEmitted ==
    /\ o_last = <<BEL>>
    /\ o_titles = <<Filler(2048)>>
    /\ o_fed = MaxFed

(***************************************************************************)
(* C23: an entry leaves the table only through remove, kill_and_remove or  *)
(* remove_if_exited; the exit watcher, append_output, kill, take_master,   *)
(* return_master and terminate_all never delete an entry, and an instance  *)
(* whose status became Exited or Error still returns from buffer_snapshot  *)
(* the contents its buffer had, until it is removed.                       *)
(***************************************************************************)
Removals == {"remove", "kill_and_remove", "remove_if_exited"}

NeverDelete ==
    {"exit_watcher", "append_output", "kill", "take_master", "return_master",
     "terminate_all"}

C23_OnlyRemovalDeletes ==
    [][/\ l_last'.op \in NeverDelete => DOMAIN l_table' = DOMAIN l_table
       /\ \A id \in LifeIds :
             /\ (id \in DOMAIN l_table /\ id \notin DOMAIN l_table') =>
                    (l_last'.op \in Removals /\ l_last'.id = id /\ l_last'.ret)
             /\ (id \in DOMAIN l_table /\ id \in DOMAIN l_table'
                     /\ l_last'.op # "append_output") =>
                    BufferSnapshot(l_table', id) = BufferSnapshot(l_table, id)]_vars

\* The exit watcher has just written Error into an instance that was sent
\* a signal; its buffer still holds the output.
C23_Witness ==
    /\ l_last = Returned("exit_watcher", 1, TRUE)
    /\ 1 \in DOMAIN l_table
    /\ l_table[1].info.status = ErrorStatus
    /\ BufferSnapshot(l_table, 1) = <<"y", "z">>
    /\ 1 \in l_signalled

(***************************************************************************)
(* C30: after the child of a registered instance has exited, the exit      *)
(* watcher eventually, under fair scheduling, writes Exited(exit code) or  *)
(* Error and an end timestamp into the instance's entry if the entry still *)
(* exists, and does nothing if the entry was removed meanwhile; kill(id)   *)
(* itself returns without waiting for that write-back.                     *)
(***************************************************************************)
\* The step in which the exit watcher of id does its write-back.
WritesBack(id) == l_watch[id] = "waiting" /\ l_watch'[id] = "done"

WriteBackDone(id) ==
    IF id \in DOMAIN l_table
    THEN /\ DOMAIN l_table' = DOMAIN l_table
         /\ l_table'[id].info.status =
                IF l_child[id].ok THEN Exited(l_child[id].code) ELSE ErrorStatus
         /\ l_table'[id].info.ended_at = l_clock
    ELSE l_table' = l_table

KillReturnsAtOnce(id) ==
    /\ l_watch' = l_watch
    /\ l_child' = l_child
    /\ l_table' = l_table

C30_WatcherWritesBack ==
    /\ [][\A id \in LifeIds :
             /\ WritesBack(id) => WriteBackDone(id)
             /\ (l_last'.op = "kill" /\ l_last'.id = id) => KillReturnsAtOnce(id)]_vars
    /\ \A id \in LifeIds :
           (l_child[id].state = "dead") ~> (l_watch[id] = "done")

\* The watcher's write-back after a kill: Exited(1) and the end time in
\* an entry that is still in the table.
C30_Witness ==
    /\ l_last = Returned("exit_watcher", 1, TRUE)
    /\ l_watch[1] = "done"
    /\ 1 \in DOMAIN l_table
    /\ l_table[1].info.status = Exited(1)
    /\ l_table[1].info.ended_at = 2
    /\ 1 \in l_signalled

\* The watcher's write-back for an entry that was removed meanwhile.
C30_RemovedMeanwhile ==
    /\ l_last = Returned("exit_watcher", 1, TRUE)
    /\ l_watch[1] = "done"
    /\ 1 \notin DOMAIN l_table

(***************************************************************************)
(* C31: instance ids are unique for the lifetime of a SessionManager: any  *)
(* two successful spawns, concurrent spawns of one task and spawns made    *)
(* after earlier instances of the task were removed included, get          *)
(* different ids; the per-task counter only goes up and removal never      *)
(* resets it.                                                              *)
(***************************************************************************)
C31_IdsUnique ==
    /\ \A i, j \in DOMAIN d_issued : i # j => d_issued[i] # d_issued[j]
    /\ \A c \in Callers :
           d_pc[c] = "has_id" =>
               /\ \A i \in DOMAIN d_issued : d_issued[i] # d_id[c]
               /\ \A k \in Callers \ {c} : d_pc[k] = "has_id" => d_id[k] # d_id[c]

\* Two spawns of one task, the second after the first one's instance was
\* removed, while the other caller holds an id of the other task.
C31_Witness ==
    /\ d_issued = <<FormatId(<<"a">>, 1), FormatId(<<"a">>, 2)>>
    /\ d_table = {FormatId(<<"a">>, 2)}
    /\ \E c \in Callers : d_pc[c] = "has_id" /\ d_id[c] = FormatId(<<"a", "#", "1">>, 1)

(***************************************************************************)
(* C32: every session directory found under the history root holds         *)
(* metadata with status Exited and a set ended_at, whichever path moved it *)
(* there: the host's child-exit handling or kill_session issued from       *)
(* another process.                                                        *)
(***************************************************************************)
C32_HistoryIsExited ==
    hist.exists => (hist.meta.status = "Exited" /\ hist.meta.ended_at)

(***************************************************************************)
(* C33: in run_start, once the launcher has seen that the attach.sock file *)
(* exists, the run_attach that follows always finds socket_path set in the *)
(* session metadata (it never fails with "session is not attachable       *)
(* yet"), for every interleaving of the host's bind, the host's metadata   *)
(* writes and the launcher's own runner_pid read-modify-write.             *)
(***************************************************************************)
C33_AttachableOnceSocketSeen == pc["launcher"] # "not_attachable"

(***************************************************************************)
(* C34: the pid that terminate_all signals for an instance is always the   *)
(* pid of the child process that spawn created for that instance; bytes    *)
(* fed through append_output can never redirect the signal to another      *)
(* process.                                                                *)
(***************************************************************************)
C34_SignalsOwnChild == l_pids \subseteq {ChildPid}

(***************************************************************************)
(* C35: feeding a byte stream to append_output in one call or split at     *)
(* arbitrary positions into several consecutive calls, splits inside an    *)
(* OSC sequence included, leaves the instance with the same final status,  *)
(* child_pid, title and ring-buffer contents.                              *)
(***************************************************************************)
C35_SplitsDoNotMatter ==
    (p_once /\ p_fed = Len(p_stream)) =>
        /\ p_parts.info.status = p_whole.info.status
        /\ p_parts.info.child_pid = p_whole.info.child_pid
        /\ p_parts.info.title = p_whole.info.title
        /\ p_parts.buffer = p_whole.buffer

\* Both entries have got the whole of a stream with two state messages
\* and a title, the second one in calls that ended inside a sequence.
C35_Witness ==
    /\ p_once
    /\ p_fed = Len(p_stream)
    /\ p_cutin
    /\ p_parts.info.status = Running
    /\ p_parts.info.child_pid = JobPid
    /\ p_parts.info.title = SomeTitle(<<"y", "o">>)

(***************************************************************************)
(* C37: parse_ansi_text loses no visible text: the run texts, joined line  *)
(* by line, are the input without its newline characters and its complete  *)
(* ESC [ params m sequences, also for inputs that hold other escape        *)
(* sequences (ESC[2J, ESC[K) or an ESC [ prefix that is not terminated.    *)
(***************************************************************************)
ParamChars == {"0", "1", "2", "3", "4", "5", "6", "7", "8", "9", ";"}

\* Position of the 'm' that ends the parameters starting at i; 0 when the
\* characters from i on are not parameters followed by 'm'.
RECURSIVE SgrEnd(_, _)
SgrEnd(input, i) ==
    IF i > Len(input) THEN 0
    ELSE IF input[i] = "m" THEN i
    ELSE IF input[i] \in ParamChars THEN SgrEnd(input, i + 1)
    ELSE 0

\* The input from i on without newlines and complete SGR sequences.
RECURSIVE Visible(_, _)
Visible(input, i) ==
    IF i > Len(input) THEN <<>>
    ELSE IF input[i] = ESC /\ i < Len(input) /\ input[i + 1] = "["
            /\ SgrEnd(input, i + 2) # 0
    THEN Visible(input, SgrEnd(input, i + 2) + 1)
    ELSE IF input[i] = "\n" THEN Visible(input, i + 1)
    ELSE <<input[i]>> \o Visible(input, i + 1)

RECURSIVE SpanTexts(_)
SpanTexts(spans) ==
    IF spans = <<>> THEN <<>>
    ELSE Head(spans).content \o SpanTexts(Tail(spans))

RECURSIVE LineTexts(_)
LineTexts(lines) ==
    IF lines = <<>> THEN <<>> ELSE SpanTexts(Head(lines)) \o LineTexts(Tail(lines))

C37_NoTextLost == LineTexts(ParseAnsiText(a_input)) = Visible(a_input, 1)

\* The same for text whose only escape sequences are complete SGR sequences.
C37_SgrOnlyKeepsText ==
    (\A k \in 1..Len(a_pieces) : a_pieces[k].kind # "csi") =>
        LineTexts(ParseAnsiText(a_input)) = Visible(a_input, 1)

(***************************************************************************)
(* C38: in the TUI App, after any sequence of start_task,                  *)
(* start_task_with_inputs, activate_run, kill_active_task and              *)
(* kill_all_tasks, active_run_id is None or the id of an entry of          *)
(* running_tasks, run ids are never reused, and each Running item of       *)
(* display_items refers to an entry of running_tasks.                      *)
(***************************************************************************)
ActiveIsRunning == u_active = NoRun \/ u_active \in DOMAIN u_running

RunIdsNotReused ==
    /\ \A j, k \in 1..Len(u_given) : j # k => u_given[j] # u_given[k]
    /\ \A r \in DOMAIN u_running : \E k \in 1..Len(u_given) : u_given[k] = r
    /\ \A k \in 1..Len(u_given) : u_given[k] < u_next

ListedRunsAreRunning ==
    \A k \in 1..Len(u_items) :
        u_items[k].kind = "Running" => u_items[k].run_id \in DOMAIN u_running

C38_AppConsistent == ActiveIsRunning /\ RunIdsNotReused /\ ListedRunsAreRunning

\* The same, the list being looked at while run_app goes on: a
\* kill_active_task whose session.kill() fails returns before the list is
\* rebuilt, and run_app returns with that error.
C38_AppConsistentWhileAlive ==
    /\ ActiveIsRunning
    /\ RunIdsNotReused
    /\ u_alive => ListedRunsAreRunning
    /\ u_alive => u_items = BuildDisplayItems(u_running)

\* Three runs were started, one was killed and another made the active one.
C38_Witness ==
    /\ u_alive
    /\ Len(u_given) = 3
    /\ DOMAIN u_running = {1, 3}
    /\ u_active = 1
    /\ \E k \in 1..Len(u_items) : u_items[k] = RunningItem(3, 1)

\* kill_active_task returned the error of session.kill().
C38_KillFailed ==
    /\ ~u_alive
    /\ u_active = NoRun
    /\ \E k \in 1..Len(u_items) :
           u_items[k].kind = "Running" /\ u_items[k].run_id \notin DOMAIN u_running

(***************************************************************************)
(* C36: once the exit watcher has recorded that the child of an instance   *)
(* terminated, the instance is never again reported with status Running,   *)
(* whatever the order of the watcher's write-back and the append_output    *)
(* calls that deliver output the child produced before it died.            *)
(***************************************************************************)
C36_NotRunningAfterExit ==
    (i_watch = "fired" /\ i_info.present) => i_info.status # Running

====
